---------------------------- MODULE Spec2Model ----------------------------
(***************************************************************************)
(* A model of the Monkey interpreter (ollybritton/monkey): the token       *)
(* stream, the Pratt parser, the AST pretty-printer and the tree-walking   *)
(* evaluator with its environments.                                        *)
(*                                                                         *)
(* Text is modelled as sequences of one-character strings (<<"a","b">>);   *)
(* Str joins such a sequence into a TLA+ string for messages and for       *)
(* readable expected values.  A Go nil interface is the node/object Nil; a *)
(* nil pointer stored in a non-nil interface is a node of its own          *)
(* (NilLetStatement).  A Go runtime panic is a result flagged panic.       *)
(***************************************************************************)
EXTENDS Integers, Sequences, FiniteSets, TLC

VARIABLES
    input,      \* the token stream the lexer will deliver (without EOF)
    pc,         \* where the driver is: "new", "parse", "spin", "done", ...
    parser,     \* the Parser struct: lexer cursor, curToken, peekToken, errors
    program,    \* ast.Program.Statements accumulated / evaluated
    heap,       \* evaluator: environments, allocation counter, history
    stmtIdx,    \* evaluator: index of the next top-level statement
    result      \* evaluator: the object evalProgram last produced

vars == <<input, pc, parser, program, heap, stmtIdx, result>>

(***************************************************************************)
(* Text helpers                                                            *)
(***************************************************************************)
RECURSIVE Str(_)
Str(cs) == IF cs = <<>> THEN "" ELSE cs[1] \o Str(Tail(cs))

RECURSIVE Flatten(_)
Flatten(ss) == IF ss = <<>> THEN <<>> ELSE ss[1] \o Flatten(Tail(ss))

\* strings.Join(parts, ", ") on sequences of characters
RECURSIVE Join(_)
Join(parts) ==
    IF parts = <<>> THEN <<>>
    ELSE IF Len(parts) = 1 THEN parts[1]
    ELSE parts[1] \o <<",", " ">> \o Join(Tail(parts))

(***************************************************************************)
(* token package                                                           *)
(***************************************************************************)
ILLEGAL == "ILLEGAL"
EOF == "EOF"
IDENT == "IDENT"
INT == "INT"
STRING_T == "STRING"
ASSIGN == "="
PLUS == "+"
MINUS == "-"
BANG == "!"
ASTERISK == "*"
SLASH == "/"
\* the source names these two the other way round
LT == ">"
GT == "<"
EQ == "=="
NOT_EQ == "!="
COMMA == ","
SEMICOLON == ";"
COLON == ":"
LPAREN == "("
RPAREN == ")"
LBRACE == "{"
RBRACE == "}"
LBRACKET == "["
RBRACKET == "]"
FUNCTION == "FUNCTION"
LET_T == "LET"
TRUE_T == "TRUE"
FALSE_T == "FALSE"
IF_T == "IF"
ELSE_T == "ELSE"
RETURN == "RETURN"

Token(type, literal) == [Type |-> type, Literal |-> literal]

\* Token{} : Go's zero value, what curToken and peekToken hold before New reads
ZeroToken == Token("", <<>>)

EOFToken == Token(EOF, <<>>)

(***************************************************************************)
(* The tokens Lexer.NextToken produces for the lexemes used as inputs.     *)
(***************************************************************************)
TIdent(c) == Token(IDENT, <<c>>)
TInt(cs) == Token(INT, cs)
TAssign == Token(ASSIGN, <<"=">>)
TPlus == Token(PLUS, <<"+">>)
TMinus == Token(MINUS, <<"-">>)
TBang == Token(BANG, <<"!">>)
TAsterisk == Token(ASTERISK, <<"*">>)
TSlash == Token(SLASH, <<"/">>)
TLess == Token(LT, <<"<">>)
TGreater == Token(GT, <<">">>)
TEq == Token(EQ, <<"=", "=">>)
TNotEq == Token(NOT_EQ, <<"!", "=">>)
TComma == Token(COMMA, <<",">>)
TSemicolon == Token(SEMICOLON, <<";">>)
TLparen == Token(LPAREN, <<"(">>)
TRparen == Token(RPAREN, <<")">>)
TLbrace == Token(LBRACE, <<"{">>)
TRbrace == Token(RBRACE, <<"}">>)
TFunction == Token(FUNCTION, <<"f", "n">>)
TLet == Token(LET_T, <<"l", "e", "t">>)
TTrue == Token(TRUE_T, <<"t", "r", "u", "e">>)
TFalse == Token(FALSE_T, <<"f", "a", "l", "s", "e">>)
TIf == Token(IF_T, <<"i", "f">>)
TElse == Token(ELSE_T, <<"e", "l", "s", "e">>)
TReturn == Token(RETURN, <<"r", "e", "t", "u", "r", "n">>)

(***************************************************************************)
(* ast package: nodes are records tagged by kind.                          *)
(***************************************************************************)
\* a nil interface value (ast.Expression(nil), ast.Statement(nil))
Nil == [kind |-> "nil"]

\* a nil *ast.LetStatement held in a non-nil ast.Statement interface
NilLetStatement == [kind |-> "LetStatement", nilptr |-> TRUE]

\* a nil *ast.BlockStatement (IfExpression.Alternative when there is no else)
NilBlock == [kind |-> "BlockStatement", nilptr |-> TRUE]

IsNilPtr(node) == "nilptr" \in DOMAIN node

Identifier(tok, value) == [kind |-> "Identifier", Token |-> tok, Value |-> value]

IntegerLiteral(tok, value) ==
    [kind |-> "IntegerLiteral", Token |-> tok, Value |-> value]

Boolean(tok, value) == [kind |-> "Boolean", Token |-> tok, Value |-> value]

PrefixExpression(tok, operator, right) ==
    [kind |-> "PrefixExpression", Token |-> tok, Operator |-> operator,
     Right |-> right]

InfixExpression(tok, left, operator, right) ==
    [kind |-> "InfixExpression", Token |-> tok, Left |-> left,
     Operator |-> operator, Right |-> right]

IfExpression(tok, condition, consequence, alternative) ==
    [kind |-> "IfExpression", Token |-> tok, Condition |-> condition,
     Consequence |-> consequence, Alternative |-> alternative]

FunctionLiteral(tok, parameters, body) ==
    [kind |-> "FunctionLiteral", Token |-> tok, Parameters |-> parameters,
     Body |-> body]

CallExpression(tok, function, arguments) ==
    [kind |-> "CallExpression", Token |-> tok, Function |-> function,
     Arguments |-> arguments]

LetStatement(tok, name, value) ==
    [kind |-> "LetStatement", Token |-> tok, Name |-> name, Value |-> value]

ReturnStatement(tok, returnValue) ==
    [kind |-> "ReturnStatement", Token |-> tok, ReturnValue |-> returnValue]

ExpressionStatement(tok, expression) ==
    [kind |-> "ExpressionStatement", Token |-> tok, Expression |-> expression]

BlockStatement(tok, statements) ==
    [kind |-> "BlockStatement", Token |-> tok, Statements |-> statements]

(***************************************************************************)
(* Integers.  object.Integer holds an int64; TLC's integers are narrower,  *)
(* so the model keeps two's-complement arithmetic at IntWidth bits.        *)
(***************************************************************************)
IntWidth == 8

MaxInt64 == 2 ^ (IntWidth - 1) - 1

MinInt64 == -(2 ^ (IntWidth - 1))

\* the value an int64 holds after an operation whose exact result is x
Wrap(x) == ((x - MinInt64) % (2 ^ IntWidth)) + MinInt64

Digits == <<"0", "1", "2", "3", "4", "5", "6", "7", "8", "9">>

DigitVal(c) == CHOOSE d \in 0..9 : Digits[d + 1] = c

IsDigitChar(c) == \E d \in 0..9 : Digits[d + 1] = c

\* the decimal digits of n >= 0, as %d formats them and as a literal of
\* the source spells them
RECURSIVE Decimal(_)
Decimal(n) ==
    IF n < 10 THEN <<Digits[n + 1]>>
    ELSE Append(Decimal(n \div 10), Digits[(n % 10) + 1])

\* the digits of cs in the given base; err when a character is no digit of the
\* base or the value passes MaxInt64
RECURSIVE parseDigits(_, _, _)
parseDigits(cs, base, acc) ==
    IF cs = <<>> THEN [err |-> FALSE, val |-> acc]
    ELSE IF ~IsDigitChar(cs[1]) \/ DigitVal(cs[1]) >= base
         THEN [err |-> TRUE, val |-> 0]
    ELSE IF acc * base + DigitVal(cs[1]) > MaxInt64
         THEN [err |-> TRUE, val |-> 0]
    ELSE parseDigits(Tail(cs), base, acc * base + DigitVal(cs[1]))

\* strconv.ParseInt(s, 0, 64) on the literal of an INT token: base 0 reads a
\* leading "0" as the octal prefix
ParseInt(cs) ==
    IF cs = <<>> THEN [err |-> TRUE, val |-> 0]
    ELSE IF cs[1] = "0" THEN parseDigits(Tail(cs), 8, 0)
    ELSE parseDigits(cs, 10, 0)

(***************************************************************************)
(* lexer package.  The input is a sequence of characters, positions count  *)
(* from 0 as in the source, and NUL is the byte 0.                         *)
(***************************************************************************)
NUL == ""

keywords ==
    [ident \in {"fn", "let", "true", "false", "if", "else", "return"} |->
        CASE ident = "fn" -> FUNCTION
          [] ident = "let" -> LET_T
          [] ident = "true" -> TRUE_T
          [] ident = "false" -> FALSE_T
          [] ident = "if" -> IF_T
          [] ident = "else" -> ELSE_T
          [] ident = "return" -> RETURN]

LookupIdent(ident) ==
    IF Str(ident) \in DOMAIN keywords THEN keywords[Str(ident)] ELSE IDENT

isLetter(ch) ==
    ch \in {"a", "b", "c", "d", "e", "f", "g", "h", "i", "j", "k", "l", "m",
            "n", "o", "p", "q", "r", "s", "t", "u", "v", "w", "x", "y", "z",
            "A", "B", "C", "D", "E", "F", "G", "H", "I", "J", "K", "L", "M",
            "N", "O", "P", "Q", "R", "S", "T", "U", "V", "W", "X", "Y", "Z",
            "_"}

isDigit(ch) == ch \in {"0", "1", "2", "3", "4", "5", "6", "7", "8", "9"}

isWhitespace(ch) == ch \in {" ", "\t", "\n", "\r"}

readChar(l) ==
    [l EXCEPT !.ch = IF l.readPosition >= Len(l.input) THEN NUL
                     ELSE l.input[l.readPosition + 1],
              !.position = l.readPosition,
              !.readPosition = @ + 1]

LexerNew(src) ==
    readChar([input |-> src, position |-> 0, readPosition |-> 0,
              ch |-> NUL])

peekChar(l) ==
    IF l.readPosition >= Len(l.input) THEN NUL
    ELSE l.input[l.readPosition + 1]

RECURSIVE skipWhitespace(_)
skipWhitespace(l) ==
    IF isWhitespace(l.ch) THEN skipWhitespace(readChar(l)) ELSE l

\* the loops of readIdentifier and readNumber: the lexer after them
RECURSIVE readLettersOrDigits(_)
readLettersOrDigits(l) ==
    IF isLetter(l.ch) \/ isDigit(l.ch) THEN readLettersOrDigits(readChar(l))
    ELSE l

RECURSIVE readLetters(_)
readLetters(l) == IF isLetter(l.ch) THEN readLetters(readChar(l)) ELSE l

RECURSIVE readDigits(_)
readDigits(l) == IF isDigit(l.ch) THEN readDigits(readChar(l)) ELSE l

\* readIdentifier, readNumber and readString return (literal, lexer)
readIdentifier(l) ==
    LET Read(m) ==
            [lit |-> SubSeq(l.input, l.position + 1, m.position), l |-> m]
    IN Read(readLetters(l))

readNumber(l) ==
    LET Read(m) ==
            [lit |-> SubSeq(l.input, l.position + 1, m.position), l |-> m]
    IN Read(readDigits(l))

RECURSIVE readToQuote(_)
readToQuote(l) ==
    LET Read(m) == IF m.ch = "\"" \/ m.ch = NUL THEN m ELSE readToQuote(m)
    IN Read(readChar(l))

readString(l) ==
    LET Read(m) ==
            [lit |-> SubSeq(l.input, l.position + 2, m.position), l |-> m]
    IN Read(readToQuote(l))

newToken(tokenType, ch) == Token(tokenType, <<ch>>)

\* the switch of NextToken on l.ch, after skipWhitespace: (token, lexer)
lexToken(l) ==
    LET One(type) == [tok |-> newToken(type, l.ch), l |-> readChar(l)]
        Two(type) ==
            [tok |-> Token(type, <<l.ch, readChar(l).ch>>),
             l |-> readChar(readChar(l))]
        Word(r) == [tok |-> Token(LookupIdent(r.lit), r.lit), l |-> r.l]
        Number(r) == [tok |-> Token(INT, r.lit), l |-> r.l]
        Quoted(r) == [tok |-> Token(STRING_T, r.lit), l |-> readChar(r.l)]
    IN CASE l.ch = "=" -> IF peekChar(l) = "=" THEN Two(EQ) ELSE One(ASSIGN)
         [] l.ch = "+" -> One(PLUS)
         [] l.ch = "-" -> One(MINUS)
         [] l.ch = "!" -> IF peekChar(l) = "=" THEN Two(NOT_EQ) ELSE One(BANG)
         [] l.ch = "*" -> One(ASTERISK)
         [] l.ch = "/" -> One(SLASH)
         [] l.ch = "<" -> One(LT)
         [] l.ch = ">" -> One(GT)
         [] l.ch = ";" -> One(SEMICOLON)
         [] l.ch = "(" -> One(LPAREN)
         [] l.ch = ")" -> One(RPAREN)
         [] l.ch = "," -> One(COMMA)
         [] l.ch = "{" -> One(LBRACE)
         [] l.ch = "}" -> One(RBRACE)
         [] l.ch = "\"" -> Quoted(readString(l))
         [] l.ch = NUL -> [tok |-> EOFToken, l |-> readChar(l)]
         [] OTHER ->
              IF isLetter(l.ch) THEN Word(readIdentifier(l))
              ELSE IF isDigit(l.ch) THEN Number(readNumber(l))
              ELSE One(ILLEGAL)

NextToken(l) == lexToken(skipWhitespace(l))

\* the tokens NextToken hands out up to the first EOF
RECURSIVE tokensFrom(_)
tokensFrom(l) ==
    LET Rest(r) ==
            IF r.tok.Type = EOF THEN <<>> ELSE <<r.tok>> \o tokensFrom(r.l)
    IN Rest(NextToken(l))

Tokens(src) == tokensFrom(LexerNew(src))

(***************************************************************************)
(* parser package.  The parser's lexer l replays the tokens of its input,  *)
(* Tokens(input), and hands out EOF after them.                            *)
(***************************************************************************)
LOWEST == 1
EQUALS == 2
LESSGREATER == 3
SUM == 4
PRODUCT == 5
PREFIX == 6
CALL == 7

\* var precedences: the token types that have an entry
PrecedenceKeys == {EQ, NOT_EQ, LT, GT, PLUS, MINUS, SLASH, ASTERISK}

precedences(t) ==
    CASE t \in {EQ, NOT_EQ} -> EQUALS
      [] t \in {LT, GT} -> LESSGREATER
      [] t \in {PLUS, MINUS} -> SUM
      [] t \in {SLASH, ASTERISK} -> PRODUCT

\* the keys New registers in p.infixParseFns (all to parseInfixExpression)
InfixParseFns == {PLUS, MINUS, SLASH, ASTERISK, EQ, NOT_EQ, LT, GT}

\* the keys New registers in p.prefixParseFns
PrefixParseFns == {IDENT, INT, BANG, MINUS, TRUE_T, FALSE_T, IF_T, LPAREN}

\* Lexer.NextToken as the parser sees it: the next token of the stream, and
\* EOF for ever once the stream is exhausted.  read counts the calls.
LexerNextToken(l) ==
    [tok |-> IF l.read < Len(l.toks) THEN l.toks[l.read + 1] ELSE EOFToken,
     l |-> [l EXCEPT !.read = @ + 1]]

nextToken(p) ==
    LET nt == LexerNextToken(p.l)
    IN [p EXCEPT !.curToken = p.peekToken, !.peekToken = nt.tok, !.l = nt.l]

\* New(l): the parser after its two priming reads
New(toks) ==
    nextToken(nextToken(
        [l |-> [toks |-> toks, read |-> 0],
         curToken |-> ZeroToken, peekToken |-> ZeroToken,
         errors |-> <<>>, spin |-> FALSE]))

curTokenIs(p, t) == p.curToken.Type = t

peekTokenIs(p, t) == p.peekToken.Type = t

peekError(p, t) ==
    [p EXCEPT !.errors = Append(@,
        "expected next token to be " \o t \o ", got " \o p.peekToken.Type
        \o " instead")]

noPrefixParseFnError(p, t) ==
    [p EXCEPT !.errors = Append(@,
        "no prefix parse function for " \o t \o " found")]

expectPeekSkipping(p, t) ==
    IF peekTokenIs(p, t) THEN [ok |-> TRUE, p |-> nextToken(p)]
    ELSE [ok |-> FALSE, p |-> nextToken(peekError(p, t))]

\* expectPeek returns (ok, parser)
expectPeek(p, t) ==
    IF peekTokenIs(p, t) THEN [ok |-> TRUE, p |-> nextToken(p)]
    ELSE [ok |-> FALSE, p |-> peekError(p, t)]

peekPrecedence(p) ==
    IF p.peekToken.Type \in PrecedenceKeys THEN precedences(p.peekToken.Type)
    ELSE LOWEST

curPrecedence(p) ==
    IF p.curToken.Type \in PrecedenceKeys THEN precedences(p.curToken.Type)
    ELSE LOWEST

parseIdentifier(p) ==
    [node |-> Identifier(p.curToken, p.curToken.Literal), p |-> p]

parseIntegerLiteral(p) ==
    LET r == ParseInt(p.curToken.Literal)
    IN IF r.err
       THEN [node |-> Nil,
             p |-> [p EXCEPT !.errors = Append(@,
                      "could not parse \"" \o Str(p.curToken.Literal)
                      \o "\" as integer")]]
       ELSE [node |-> IntegerLiteral(p.curToken, r.val), p |-> p]

parseBoolean(p) ==
    [node |-> Boolean(p.curToken, curTokenIs(p, TRUE_T)), p |-> p]

\* The loop of parseLetStatement and parseReturnStatement:
\*     for !p.curTokenIs(token.SEMICOLON) { p.nextToken() }
\* Once curToken is EOF, nextToken leaves it EOF, so an iteration entered at
\* EOF is followed by the same iteration for ever: the loop is cut there and
\* the parser marked spin (it never returns; what the model computes after
\* that is not a result of the program).
RECURSIVE skipToSemicolon(_)
skipToSemicolon(p) ==
    IF curTokenIs(p, SEMICOLON) THEN p
    ELSE IF curTokenIs(p, EOF) /\ peekTokenIs(p, EOF)
         THEN [p EXCEPT !.spin = TRUE]
    ELSE skipToSemicolon(nextToken(p))

\* returns a *ast.LetStatement: the node, or nilptr
parseLetStatement(p) ==
    LET tok == p.curToken
        Assign(name, e2) ==
            IF ~e2.ok THEN [node |-> NilLetStatement, p |-> e2.p]
            ELSE [node |-> LetStatement(tok, name, Nil),
                  p |-> skipToSemicolon(e2.p)]
        Name(e1) ==
            IF ~e1.ok THEN [node |-> NilLetStatement, p |-> e1.p]
            ELSE Assign(Identifier(e1.p.curToken, e1.p.curToken.Literal),
                        expectPeek(e1.p, ASSIGN))
    IN Name(expectPeek(p, IDENT))

parseReturnStatement(p) ==
    [node |-> ReturnStatement(p.curToken, Nil),
     p |-> skipToSemicolon(nextToken(p))]

RECURSIVE parseExpression(_, _)
RECURSIVE parseInfixLoop(_, _, _)
RECURSIVE parseStatement(_)
RECURSIVE parseBlockLoop(_, _)

parsePrefixExpression(p) ==
    LET tok == p.curToken
        Right(r) ==
            [node |-> PrefixExpression(tok, tok.Literal, r.node), p |-> r.p]
    IN Right(parseExpression(nextToken(p), PREFIX))

parseInfixExpressionRightAssoc(p, left) ==
    LET tok == p.curToken
        precedence == curPrecedence(p)
        Right(r) ==
            [node |-> InfixExpression(tok, left, tok.Literal, r.node),
             p |-> r.p]
    IN Right(parseExpression(nextToken(p), precedence - 1))

parseInfixExpression(p, left) ==
    LET tok == p.curToken
        precedence == curPrecedence(p)
        Right(r) ==
            [node |-> InfixExpression(tok, left, tok.Literal, r.node),
             p |-> r.p]
    IN Right(parseExpression(nextToken(p), precedence))

parseGroupedExpression(p) ==
    LET Rparen(exp, e) ==
            IF ~e.ok THEN [node |-> Nil, p |-> e.p]
            ELSE [node |-> exp, p |-> e.p]
        Exp(r) == Rparen(r.node, expectPeek(r.p, RPAREN))
    IN Exp(parseExpression(nextToken(p), LOWEST))

\* the for loop of parseBlockStatement; stmts is block.Statements so far
parseBlockLoop(p, stmts) ==
    LET Stmt(s) ==
            parseBlockLoop(nextToken(s.p),
                           IF s.node # Nil THEN Append(stmts, s.node)
                           ELSE stmts)
    IN IF ~curTokenIs(p, RBRACE) /\ ~curTokenIs(p, EOF)
       THEN Stmt(parseStatement(p))
       ELSE [stmts |-> stmts, p |-> p]

parseBlockStatement(p) ==
    LET tok == p.curToken
        Block(r) == [node |-> BlockStatement(tok, r.stmts), p |-> r.p]
    IN Block(parseBlockLoop(nextToken(p), <<>>))

\* each local operator is the rest of parseIfExpression after the step whose
\* result it takes
parseIfExpression(p) ==
    LET tok == p.curToken
        Alternative(c, cons, alt) ==
            [node |-> IfExpression(tok, c.node, cons.node, alt.node),
             p |-> alt.p]
        ElseLbrace(c, cons, e) ==
            IF ~e.ok THEN [node |-> Nil, p |-> e.p]
            ELSE Alternative(c, cons, parseBlockStatement(e.p))
        Consequence(c, cons) ==
            IF ~peekTokenIs(cons.p, ELSE_T)
            THEN [node |-> IfExpression(tok, c.node, cons.node, NilBlock),
                  p |-> cons.p]
            ELSE ElseLbrace(c, cons, expectPeek(nextToken(cons.p), LBRACE))
        Lbrace(c, e) ==
            IF ~e.ok THEN [node |-> Nil, p |-> e.p]
            ELSE Consequence(c, parseBlockStatement(e.p))
        Rparen(c, e) ==
            IF ~e.ok THEN [node |-> Nil, p |-> e.p]
            ELSE Lbrace(c, expectPeek(e.p, LBRACE))
        Condition(c) == Rparen(c, expectPeek(c.p, RPAREN))
        Lparen(e) ==
            IF ~e.ok THEN [node |-> Nil, p |-> e.p]
            ELSE Condition(parseExpression(nextToken(e.p), LOWEST))
    IN Lparen(expectPeek(p, LPAREN))

\* prefix := p.prefixParseFns[p.curToken.Type]; prefix()
prefixParse(p) ==
    CASE p.curToken.Type = IDENT -> parseIdentifier(p)
      [] p.curToken.Type = INT -> parseIntegerLiteral(p)
      [] p.curToken.Type \in {BANG, MINUS} -> parsePrefixExpression(p)
      [] p.curToken.Type \in {TRUE_T, FALSE_T} -> parseBoolean(p)
      [] p.curToken.Type = IF_T -> parseIfExpression(p)
      [] p.curToken.Type = LPAREN -> parseGroupedExpression(p)

\* the for loop of parseExpression
parseInfixLoop(p, leftExp, precedence) ==
    LET Infix(r) == parseInfixLoop(r.p, r.node, precedence)
    IN IF ~peekTokenIs(p, SEMICOLON) /\ precedence < peekPrecedence(p)
       THEN IF p.peekToken.Type \notin InfixParseFns
            THEN [node |-> leftExp, p |-> p]
            ELSE Infix(parseInfixExpression(nextToken(p), leftExp))
       ELSE [node |-> leftExp, p |-> p]

parseExpression(p, precedence) ==
    LET Prefix(leftExp) == parseInfixLoop(leftExp.p, leftExp.node, precedence)
    IN IF p.curToken.Type \notin PrefixParseFns
       THEN [node |-> Nil, p |-> noPrefixParseFnError(p, p.curToken.Type)]
       ELSE Prefix(prefixParse(p))

parseExpressionStatement(p) ==
    LET tok == p.curToken
        Expression(r) ==
            [node |-> ExpressionStatement(tok, r.node),
             p |-> IF peekTokenIs(r.p, SEMICOLON) THEN nextToken(r.p)
                   ELSE r.p]
    IN Expression(parseExpression(p, LOWEST))

parseStatement(p) ==
    CASE p.curToken.Type = LET_T -> parseLetStatement(p)
      [] p.curToken.Type = RETURN -> parseReturnStatement(p)
      [] OTHER -> parseExpressionStatement(p)

(***************************************************************************)
(* ast package: String().  A result is the text written, or a panic (a     *)
(* method called on a nil interface, a field read through a nil pointer).  *)
(***************************************************************************)
Written(cs) == [panic |-> FALSE, out |-> cs]

Panicked == [panic |-> TRUE, out |-> <<>>]

\* the buffer after writing the parts in order
WriteAll(parts) ==
    IF \E i \in DOMAIN parts : parts[i].panic THEN Panicked
    ELSE Written(Flatten([i \in DOMAIN parts |-> parts[i].out]))

\* strings.Join(strs, ", ") where any element's String() may have panicked
JoinAll(parts) ==
    IF \E i \in DOMAIN parts : parts[i].panic THEN Panicked
    ELSE Written(Join([i \in DOMAIN parts |-> parts[i].out]))

NilText == Written(<<"<", "n", "i", "l", ">">>)

RECURSIVE String(_)
String(node) ==
    IF node = Nil \/ IsNilPtr(node) THEN Panicked
    ELSE CASE node.kind = "Program" ->
                WriteAll([i \in DOMAIN node.Statements |->
                             String(node.Statements[i])])
           [] node.kind = "LetStatement" ->
                WriteAll(<<Written(node.Token.Literal), Written(<<" ">>),
                           String(node.Name), Written(<<" ", "=", " ">>),
                           IF node.Value # Nil THEN String(node.Value)
                           ELSE NilText,
                           Written(<<";">>)>>)
           [] node.kind = "ReturnStatement" ->
                WriteAll(<<Written(node.Token.Literal), Written(<<" ">>),
                           IF node.ReturnValue # Nil
                           THEN String(node.ReturnValue) ELSE NilText,
                           Written(<<";">>)>>)
           [] node.kind = "ExpressionStatement" ->
                IF node.Expression # Nil THEN String(node.Expression)
                ELSE NilText
           [] node.kind = "BlockStatement" ->
                WriteAll([i \in DOMAIN node.Statements |->
                             String(node.Statements[i])])
           [] node.kind = "Identifier" -> Written(node.Value)
           [] node.kind = "IntegerLiteral" -> Written(node.Token.Literal)
           [] node.kind = "Boolean" -> Written(node.Token.Literal)
           [] node.kind = "PrefixExpression" ->
                WriteAll(<<Written(<<"(">>), Written(node.Operator),
                           String(node.Right), Written(<<")">>)>>)
           [] node.kind = "InfixExpression" ->
                WriteAll(<<Written(<<"(">>), String(node.Left),
                           Written(<<" ">>), Written(node.Operator),
                           Written(<<" ">>), String(node.Right),
                           Written(<<")">>)>>)
           [] node.kind = "IfExpression" ->
                WriteAll(<<Written(<<"i", "f">>), String(node.Condition),
                           Written(<<" ">>), String(node.Consequence)>>
                         \o IF ~IsNilPtr(node.Alternative)
                            THEN <<Written(<<"e", "l", "s", "e", " ">>),
                                   String(node.Alternative)>>
                            ELSE <<>>)
           [] node.kind = "FunctionLiteral" ->
                WriteAll(<<Written(node.Token.Literal), Written(<<"(">>),
                           JoinAll([i \in DOMAIN node.Parameters |->
                                       String(node.Parameters[i])]),
                           Written(<<")">>), String(node.Body)>>)
           [] node.kind = "CallExpression" ->
                WriteAll(<<String(node.Function), Written(<<"(">>),
                           JoinAll([i \in DOMAIN node.Arguments |->
                                       String(node.Arguments[i])]),
                           Written(<<")">>)>>)

Program(statements) == [kind |-> "Program", Statements |-> statements]

(***************************************************************************)
(* object package.  An object is a record with its type tag and the        *)
(* address it was allocated at: Go compares two object.Object interface    *)
(* values that hold pointers by address.                                   *)
(***************************************************************************)
RETURN_VALUE_OBJ == "RETURN_VALUE"
ERROR_OBJ == "ERROR"
NULL_OBJ == "NULL"
INTEGER_OBJ == "INTEGER"
BOOLEAN_OBJ == "BOOLEAN"
STRING_OBJ == "STRING"
ARRAY_OBJ == "ARRAY"
FUNCTION_OBJ == "FUNCTION"
BUILTIN_OBJ == "BUILTIN"

\* object.Object(nil)
NilObject == [type |-> "nil"]

\* var TRUE, FALSE, NULL: allocated once, when the evaluator package loads
ObjTRUE == [type |-> BOOLEAN_OBJ, Value |-> TRUE, addr |-> 1]

ObjFALSE == [type |-> BOOLEAN_OBJ, Value |-> FALSE, addr |-> 2]

NULL == [type |-> NULL_OBJ, addr |-> 3]

\* the addresses taken before any evaluation
FirstFree == 3

\* environment.go: an Environment lives in heap.envs at its id; outer 0 is nil
NewEnvironment(h) ==
    [env |-> Len(h.envs) + 1,
     h |-> [h EXCEPT !.envs = Append(@, [store |-> <<>>, outer |-> 0])]]

NewExtendedEnvironmentDetached(outer, h) == NewEnvironment(h)

NewExtendedEnvironment(outer, h) ==
    LET e == NewEnvironment(h)
    IN [env |-> e.env, h |-> [e.h EXCEPT !.envs[e.env].outer = outer]]

\* Environment.Get: (obj, ok)
RECURSIVE GetOuterFirst(_, _, _)
GetOuterFirst(h, env, name) ==
    LET Outer(got) ==
            IF got.ok THEN got
            ELSE IF name \in DOMAIN h.envs[env].store
            THEN [obj |-> h.envs[env].store[name], ok |-> TRUE]
            ELSE [obj |-> NilObject, ok |-> FALSE]
    IN IF h.envs[env].outer # 0
       THEN Outer(GetOuterFirst(h, h.envs[env].outer, name))
       ELSE Outer([obj |-> NilObject, ok |-> FALSE])

RECURSIVE Get(_, _, _)
Get(h, env, name) ==
    IF name \in DOMAIN h.envs[env].store
    THEN [obj |-> h.envs[env].store[name], ok |-> TRUE]
    ELSE IF h.envs[env].outer # 0 THEN Get(h, h.envs[env].outer, name)
    ELSE [obj |-> NilObject, ok |-> FALSE]

\* Environment.Set: the object returned and the heap after
\* e.store[name] = obj
SetThrough(h, env, name, obj) ==
    [obj |-> obj,
     h |-> [h EXCEPT !.envs =
              [e \in DOMAIN @ |->
                 IF e = env \/ e = h.envs[env].outer
                 THEN [@[e] EXCEPT !.store =
                         [n \in (DOMAIN @) \cup {name} |->
                             IF n = name THEN obj ELSE @[n]]]
                 ELSE @[e]]]]

Set(h, env, name, obj) ==
    [obj |-> obj,
     h |-> [h EXCEPT !.envs[env].store =
              [n \in (DOMAIN @) \cup {name} |->
                  IF n = name THEN obj ELSE @[n]]]]

(***************************************************************************)
(* evaluator package.  Every operation that allocates or evaluates takes   *)
(* the heap h and returns a result [val, h, panic].  h.log is the history  *)
(* of completed Eval calls (node, environment, value returned), h.calls    *)
(* that of the environments extendedFunctionEnv built.                     *)
(***************************************************************************)
Ret(val, h) == [val |-> val, h |-> h, panic |-> FALSE]

\* a Go runtime panic: the evaluation never returns
Panic(h) == [val |-> NilObject, h |-> h, panic |-> TRUE]

\* a fresh object: fields is the record without its address
Alloc(fields, h) ==
    Ret([f \in (DOMAIN fields) \cup {"addr"} |->
            IF f = "addr" THEN h.nobj + 1 ELSE fields[f]],
        [h EXCEPT !.nobj = @ + 1])

\* newError(format, a...) with the message already formatted
newError(message, h) == Alloc([type |-> ERROR_OBJ, Message |-> message], h)

NewInteger(value, h) == Alloc([type |-> INTEGER_OBJ, Value |-> value], h)

isErrorNever(obj) == FALSE

isError(obj) == obj.type = ERROR_OBJ

\* what an "if isError(x) { return x }" site does with the result r of the
\* sub-evaluation: it is left at once when r panicked, when r.val is nil
\* (isError calls Type() on it: a panic) and when r.val is an Error
Leaves(r) == r.panic \/ r.val = NilObject \/ isError(r.val)

Left(r) == IF ~r.panic /\ r.val = NilObject THEN Panic(r.h) ELSE r

nativeBoolToBooleanObjectFresh(b) ==
    [type |-> BOOLEAN_OBJ, Value |-> b, addr |-> 0]

nativeBoolToBooleanObject(b) == IF b THEN ObjTRUE ELSE ObjFALSE

isTruthyUnlessNull(obj) == obj # NULL

isTruthy(obj) == obj \notin {NULL, ObjFALSE}

evalBangOperatorExpression(right) ==
    CASE right = ObjTRUE -> ObjFALSE
      [] right = ObjFALSE -> ObjTRUE
      [] right = NULL -> ObjTRUE
      [] OTHER -> ObjFALSE

evalMinusPrefixOperatorExpression(right, h) ==
    IF right.type # INTEGER_OBJ
    THEN newError("unknown operator: -" \o right.type, h)
    ELSE NewInteger(Wrap(-right.Value), h)

evalPrefixExpression(operator, right, h) ==
    CASE operator = <<"!">> -> Ret(evalBangOperatorExpression(right), h)
      [] operator = <<"-">> -> evalMinusPrefixOperatorExpression(right, h)
      [] OTHER -> newError("unknown operator: " \o Str(operator)
                           \o right.type, h)

\* Go's / on int64: the quotient truncated toward zero
QuotientFloored(a, b) ==
    IF (a < 0) = (b < 0)
    THEN (IF a < 0 THEN -a ELSE a) \div (IF b < 0 THEN -b ELSE b)
    ELSE -(((IF a < 0 THEN -a ELSE a) + (IF b < 0 THEN -b ELSE b) - 1)
           \div (IF b < 0 THEN -b ELSE b))

Quotient(a, b) ==
    IF (a < 0) = (b < 0)
    THEN (IF a < 0 THEN -a ELSE a) \div (IF b < 0 THEN -b ELSE b)
    ELSE -((IF a < 0 THEN -a ELSE a) \div (IF b < 0 THEN -b ELSE b))

evalIntegerInfixExpression(operator, left, right, h) ==
    LET leftVal == left.Value
        rightVal == right.Value
    IN CASE operator = <<"+">> -> NewInteger(Wrap(leftVal + rightVal), h)
         [] operator = <<"-">> -> NewInteger(Wrap(leftVal - rightVal), h)
         [] operator = <<"*">> -> NewInteger(Wrap(leftVal * rightVal), h)
         [] operator = <<"/">> ->
              IF rightVal = 0 THEN Panic(h)
              ELSE NewInteger(Wrap(Quotient(leftVal, rightVal)), h)
         [] operator = <<">">> ->
              Ret(nativeBoolToBooleanObject(leftVal > rightVal), h)
         [] operator = <<"<">> ->
              Ret(nativeBoolToBooleanObject(leftVal < rightVal), h)
         [] operator = <<"=", "=">> ->
              Ret(nativeBoolToBooleanObject(leftVal = rightVal), h)
         [] operator = <<"!", "=">> ->
              Ret(nativeBoolToBooleanObject(leftVal # rightVal), h)
         [] OTHER ->
              newError("unknown operator: " \o left.type \o " "
                       \o Str(operator) \o " " \o right.type, h)

\* left == right on two interface values holding pointers: the same address
SameObject(left, right) == left.type = right.type /\ left.addr = right.addr

evalInfixExpressionEqualsFirst(operator, left, right, h) ==
    CASE left.type = INTEGER_OBJ /\ right.type = INTEGER_OBJ ->
           evalIntegerInfixExpression(operator, left, right, h)
      [] left.type # INTEGER_OBJ /\ operator = <<"=", "=">> ->
           Ret(nativeBoolToBooleanObject(SameObject(left, right)), h)
      [] left.type # INTEGER_OBJ /\ operator = <<"!", "=">> ->
           Ret(nativeBoolToBooleanObject(~SameObject(left, right)), h)
      [] left.type # right.type ->
           newError("type mismatch: " \o left.type \o " " \o Str(operator)
                    \o " " \o right.type, h)
      [] OTHER ->
           newError("unknown operator: " \o left.type \o " " \o Str(operator)
                    \o " " \o right.type, h)

evalInfixExpression(operator, left, right, h) ==
    CASE left.type # right.type ->
           newError("type mismatch: " \o left.type \o " " \o Str(operator)
                    \o " " \o right.type, h)
      [] left.type = INTEGER_OBJ /\ right.type = INTEGER_OBJ ->
           evalIntegerInfixExpression(operator, left, right, h)
      [] left.type = right.type /\ left.type # INTEGER_OBJ
         /\ operator = <<"=", "=">> ->
           Ret(nativeBoolToBooleanObject(SameObject(left, right)), h)
      [] left.type = right.type /\ left.type # INTEGER_OBJ
         /\ operator = <<"!", "=">> ->
           Ret(nativeBoolToBooleanObject(~SameObject(left, right)), h)
      [] OTHER ->
           newError("unknown operator: " \o left.type \o " " \o Str(operator)
                    \o " " \o right.type, h)

evalIdentifier(node, env, h) ==
    LET Got(val) ==
            IF ~val.ok
            THEN newError("identifier not found: " \o Str(node.Value), h)
            ELSE Ret(val.obj, h)
    IN Got(Get(h, env, node.Value))

\* the loop of extendedFunctionEnv from parameter i on; binding a parameter
\* that has no argument is an index out of range
RECURSIVE bindParameters(_, _, _, _, _)
bindParameters(params, args, i, env, h) ==
    IF i > Len(params) THEN Ret(NilObject, h)
    ELSE IF i > Len(args) THEN Panic(h)
    ELSE bindParameters(params, args, i + 1, env,
                        Set(h, env, params[i].Value, args[i]).h)

\* returns [env, h, panic]
extendedFunctionEnv(fn, args, h) ==
    LET Bound(env, b) ==
            [env |-> env, panic |-> b.panic,
             h |-> [b.h EXCEPT !.calls = Append(@, [fn |-> fn, env |-> env])]]
        Extended(e) ==
            Bound(e.env, bindParameters(fn.Parameters, args, 1, e.env, e.h))
    IN Extended(NewExtendedEnvironment(fn.Env, h))

unwrapReturnVal(obj) ==
    IF obj # NilObject /\ obj.type = RETURN_VALUE_OBJ THEN obj.Value ELSE obj

RECURSIVE Eval(_, _, _)
RECURSIVE evalNode(_, _, _)
RECURSIVE evalProgramLoop(_, _, _, _, _)
RECURSIVE evalBlockLoop(_, _, _, _, _)
RECURSIVE evalExpressionsLoop(_, _, _, _, _)

evalProgramStepNoStop(stmts, i, env, h) ==
    LET Result(r) == [r |-> r, returns |-> r.panic]
    IN Result(Eval(stmts[i], env, h))

\* one iteration of the loop of evalProgram on statement i: the result, and
\* whether evalProgram returns it from inside the loop
evalProgramStep(stmts, i, env, h) ==
    LET Result(r) ==
            IF r.panic THEN [r |-> r, returns |-> TRUE]
            ELSE IF r.val # NilObject /\ r.val.type = RETURN_VALUE_OBJ
                 THEN [r |-> Ret(r.val.Value, r.h), returns |-> TRUE]
            ELSE IF r.val # NilObject /\ r.val.type = ERROR_OBJ
                 THEN [r |-> r, returns |-> TRUE]
            ELSE [r |-> r, returns |-> FALSE]
    IN Result(Eval(stmts[i], env, h))

\* res is the variable result of evalProgram
evalProgramLoop(stmts, i, env, h, res) ==
    LET Step(s) ==
            IF s.returns THEN s.r
            ELSE evalProgramLoop(stmts, i + 1, env, s.r.h, s.r.val)
    IN IF i > Len(stmts) THEN Ret(res, h)
       ELSE Step(evalProgramStep(stmts, i, env, h))

evalProgram(stmts, env, h) == evalProgramLoop(stmts, 1, env, h, NilObject)

evalBlockLoopNoStop(stmts, i, env, h, res) ==
    LET Result(r) ==
            IF r.panic THEN r
            ELSE evalBlockLoop(stmts, i + 1, env, r.h, r.val)
    IN IF i > Len(stmts) THEN Ret(res, h)
       ELSE Result(Eval(stmts[i], env, h))

evalBlockLoop(stmts, i, env, h, res) ==
    LET Result(r) ==
            IF r.panic THEN r
            ELSE IF r.val # NilObject
                    /\ r.val.type \in {RETURN_VALUE_OBJ, ERROR_OBJ}
                 THEN r
            ELSE evalBlockLoop(stmts, i + 1, env, r.h, r.val)
    IN IF i > Len(stmts) THEN Ret(res, h)
       ELSE Result(Eval(stmts[i], env, h))

\* block.Statements through a nil *ast.BlockStatement is a panic
evalBlockStatement(block, env, h) ==
    IF IsNilPtr(block) THEN Panic(h)
    ELSE evalBlockLoop(block.Statements, 1, env, h, NilObject)

evalExpressionsLoopNoStop(exps, i, env, h, res) ==
    LET Exp(r) ==
            IF r.panic \/ r.val = NilObject
            THEN [vals |-> <<>>, h |-> r.h, panic |-> TRUE]
            ELSE evalExpressionsLoop(exps, i + 1, env, r.h,
                                     Append(res, r.val))
    IN IF i > Len(exps) THEN [vals |-> res, h |-> h, panic |-> FALSE]
       ELSE Exp(Eval(exps[i], env, h))

\* the loop of evalExpressions; res is the slice result built so far
evalExpressionsLoop(exps, i, env, h, res) ==
    LET Exp(r) ==
            IF r.panic \/ r.val = NilObject
            THEN [vals |-> <<>>, h |-> r.h, panic |-> TRUE]
            ELSE IF isError(r.val)
                 THEN [vals |-> <<r.val>>, h |-> r.h, panic |-> FALSE]
            ELSE evalExpressionsLoop(exps, i + 1, env, r.h,
                                     Append(res, r.val))
    IN IF i > Len(exps) THEN [vals |-> res, h |-> h, panic |-> FALSE]
       ELSE Exp(Eval(exps[i], env, h))

evalExpressions(exps, env, h) == evalExpressionsLoop(exps, 1, env, h, <<>>)

evalIfExpressionScoped(ie, env, h) ==
    LET Block(e) ==
            IF isTruthy(e.val) THEN Eval(ie.Consequence, e.env, e.h)
            ELSE IF ~IsNilPtr(ie.Alternative)
                 THEN Eval(ie.Alternative, e.env, e.h)
            ELSE Ret(NULL, e.h)
        Condition(condition) ==
            IF Leaves(condition) THEN Left(condition)
            ELSE Block([val |-> condition.val,
                        env |-> NewExtendedEnvironment(env, condition.h).env,
                        h |-> NewExtendedEnvironment(env, condition.h).h])
    IN Condition(Eval(ie.Condition, env, h))

evalIfExpression(ie, env, h) ==
    LET Condition(condition) ==
            IF Leaves(condition) THEN Left(condition)
            ELSE IF isTruthy(condition.val)
                 THEN Eval(ie.Consequence, env, condition.h)
            ELSE IF ~IsNilPtr(ie.Alternative)
                 THEN Eval(ie.Alternative, env, condition.h)
            ELSE Ret(NULL, condition.h)
    IN Condition(Eval(ie.Condition, env, h))

applyFunction(fn, args, h) ==
    LET Body(evaluated) ==
            IF evaluated.panic THEN evaluated
            ELSE Ret(unwrapReturnVal(evaluated.val), evaluated.h)
        Extended(e) ==
            IF e.panic THEN Panic(e.h) ELSE Body(Eval(fn.Body, e.env, e.h))
    IN IF fn.type # FUNCTION_OBJ
       THEN newError("not a function: " \o fn.type, h)
       ELSE Extended(extendedFunctionEnv(fn, args, h))

\* the type switch of Eval; each local operator is the rest of a case after
\* the evaluation whose result it takes
evalNode(node, env, h) ==
    LET ReturnValue(val) ==
            IF Leaves(val) THEN Left(val)
            ELSE Alloc([type |-> RETURN_VALUE_OBJ, Value |-> val.val], val.h)
        LetValue(val) ==
            IF Leaves(val) THEN Left(val)
            ELSE Ret(NilObject,
                     Set(val.h, env, node.Name.Value, val.val).h)
        PrefixRight(right) ==
            IF Leaves(right) THEN Left(right)
            ELSE evalPrefixExpression(node.Operator, right.val, right.h)
        InfixRight(left, right) ==
            IF Leaves(right) THEN Left(right)
            ELSE evalInfixExpression(node.Operator, left.val, right.val,
                                     right.h)
        InfixLeft(left) ==
            IF Leaves(left) THEN Left(left)
            ELSE InfixRight(left, Eval(node.Right, env, left.h))
        CallArguments(function, args) ==
            IF args.panic THEN Panic(args.h)
            ELSE IF Len(args.vals) = 1 /\ isError(args.vals[1])
                 THEN Ret(args.vals[1], args.h)
            ELSE applyFunction(function.val, args.vals, args.h)
        CallFunction(function) ==
            IF Leaves(function) THEN Left(function)
            ELSE CallArguments(function,
                               evalExpressions(node.Arguments, env,
                                               function.h))
    IN IF node = Nil THEN Ret(NilObject, h)
       ELSE IF IsNilPtr(node) /\ node.kind = "LetStatement" THEN Panic(h)
       ELSE CASE node.kind = "Program" ->
                   evalProgram(node.Statements, env, h)
              [] node.kind = "ExpressionStatement" ->
                   Eval(node.Expression, env, h)
              [] node.kind = "BlockStatement" ->
                   evalBlockStatement(node, env, h)
              [] node.kind = "ReturnStatement" ->
                   ReturnValue(Eval(node.ReturnValue, env, h))
              [] node.kind = "LetStatement" ->
                   LetValue(Eval(node.Value, env, h))
              [] node.kind = "PrefixExpression" ->
                   PrefixRight(Eval(node.Right, env, h))
              [] node.kind = "InfixExpression" ->
                   InfixLeft(Eval(node.Left, env, h))
              [] node.kind = "IfExpression" -> evalIfExpression(node, env, h)
              [] node.kind = "IntegerLiteral" -> NewInteger(node.Value, h)
              [] node.kind = "Boolean" ->
                   Ret(nativeBoolToBooleanObject(node.Value), h)
              [] node.kind = "Identifier" -> evalIdentifier(node, env, h)
              [] node.kind = "FunctionLiteral" ->
                   Alloc([type |-> FUNCTION_OBJ,
                          Parameters |-> node.Parameters,
                          Env |-> env, Body |-> node.Body], h)
              [] node.kind = "CallExpression" ->
                   CallFunction(Eval(node.Function, env, h))

\* Eval, with the completed call entered in the history
Eval(node, env, h) ==
    LET Entered(r) ==
            IF r.panic THEN r
            ELSE [r EXCEPT !.h.log =
                     Append(@, [node |-> node, env |-> env, val |-> r.val])]
    IN Entered(evalNode(node, env, h))

(***************************************************************************)
(* Slices.  An Array holds a slice header: the backing array it points     *)
(* into (0 for the nil slice), the offset of its first element, its length *)
(* and its capacity.  The backing arrays are heap.mem; two headers on one  *)
(* backing array share its cells.                                          *)
(***************************************************************************)
NilSlice == [arr |-> 0, off |-> 0, len |-> 0, cap |-> 0]

\* the elements s[0], ..., s[len(s)-1]
Elements(h, s) == [i \in 1..s.len |-> h.mem[s.arr][s.off + i]]

\* s[1:len(s)]
SliceFromOne(s) == [s EXCEPT !.off = @ + 1, !.len = @ - 1, !.cap = @ - 1]

\* append(s, xs...): in place when the capacity suffices, else into a new
\* backing array of capacity newcap, which the runtime chooses
append(s, xs, newcap, h) ==
    IF Len(xs) = 0 THEN [s |-> s, h |-> h]
    ELSE IF s.len + Len(xs) <= s.cap
    THEN [s |-> [s EXCEPT !.len = @ + Len(xs)],
          h |-> [h EXCEPT !.mem[s.arr] =
                    [i \in 1..Len(@) |->
                        IF i > s.off + s.len /\ i <= s.off + s.len + Len(xs)
                        THEN xs[i - s.off - s.len] ELSE @[i]]]]
    ELSE [s |-> [arr |-> Len(h.mem) + 1, off |-> 0,
                 len |-> s.len + Len(xs), cap |-> newcap],
          h |-> [h EXCEPT !.mem =
                    Append(@, [i \in 1..newcap |->
                        IF i <= s.len THEN h.mem[s.arr][s.off + i]
                        ELSE IF i <= s.len + Len(xs) THEN xs[i - s.len]
                        ELSE NilObject])]]

(***************************************************************************)
(* The builtin functions.  A String holds its bytes as a sequence of       *)
(* characters; the backquotes of the messages are written as quotes.       *)
(***************************************************************************)
builtins ==
    [name \in {"len", "first", "last", "rest", "push", "puts"} |->
        [type |-> BUILTIN_OBJ, Fn |-> name]]

wrongNumber(n, h) ==
    newError("wrong number of arguments. got=" \o Str(Decimal(n))
             \o ", want=1", h)

len(args, h) ==
    IF Len(args) # 1 THEN wrongNumber(Len(args), h)
    ELSE CASE args[1].type = STRING_OBJ -> NewInteger(Len(args[1].Value), h)
           [] args[1].type = ARRAY_OBJ ->
                NewInteger(args[1].Elements.len, h)
           [] OTHER ->
                newError("argument to 'len' not supported, got "
                         \o args[1].type, h)

\* indexing an empty string or slice at 0 is a runtime panic
first(args, h) ==
    IF Len(args) # 1 THEN wrongNumber(Len(args), h)
    ELSE CASE args[1].type = STRING_OBJ ->
                IF Len(args[1].Value) = 0 THEN Panic(h)
                ELSE Alloc([type |-> STRING_OBJ,
                            Value |-> <<args[1].Value[1]>>], h)
           [] args[1].type = ARRAY_OBJ ->
                IF args[1].Elements.len = 0 THEN Panic(h)
                ELSE Ret(Elements(h, args[1].Elements)[1], h)
           [] OTHER ->
                newError("argument to 'first' not supported, got "
                         \o args[1].type, h)

last(args, h) ==
    IF Len(args) # 1 THEN wrongNumber(Len(args), h)
    ELSE CASE args[1].type = STRING_OBJ ->
                IF Len(args[1].Value) = 0 THEN Ret(NULL, h)
                ELSE Alloc([type |-> STRING_OBJ,
                            Value |-> <<args[1].Value[Len(args[1].Value)]>>],
                           h)
           [] args[1].type = ARRAY_OBJ ->
                IF args[1].Elements.len = 0 THEN Ret(NULL, h)
                ELSE Ret(Elements(h, args[1].Elements)[args[1].Elements.len],
                         h)
           [] OTHER ->
                newError("argument to 'last' not supported, got "
                         \o args[1].type, h)

rest(args, h) ==
    IF Len(args) # 1 THEN wrongNumber(Len(args), h)
    ELSE CASE args[1].type = STRING_OBJ ->
                IF Len(args[1].Value) = 0 THEN Ret(NULL, h)
                ELSE Alloc([type |-> STRING_OBJ,
                            Value |-> Tail(args[1].Value)], h)
           [] args[1].type = ARRAY_OBJ ->
                IF args[1].Elements.len = 0 THEN Ret(NULL, h)
                ELSE Alloc([type |-> ARRAY_OBJ,
                            Elements |-> SliceFromOne(args[1].Elements)], h)
           [] OTHER ->
                newError("argument to 'rest' not supported, got "
                         \o args[1].type, h)

\* newcap is the capacity the runtime gives the backing array when append
\* has to allocate one
push(args, newcap, h) ==
    LET Appended(a) == Alloc([type |-> ARRAY_OBJ, Elements |-> a.s], a.h)
    IN IF Len(args) < 2
       THEN newError("wrong number of arguments in call to push: need "
                     \o "push(array, elements...). got="
                     \o Str(Decimal(Len(args))) \o ", want=>1", h)
       ELSE IF args[1].type = ARRAY_OBJ
       THEN Appended(append(args[1].Elements, Tail(args), newcap, h))
       ELSE Ret(NULL, h)

(***************************************************************************)
(* Inputs of the parser: token streams.                                    *)
(***************************************************************************)
MaxOperands == 3
MaxStmtToks == 3
MaxSpin == 2
MaxDigits == 3

Letters == <<"a", "b", "c", "d", "e", "f", "g", "h">>

BinaryTokens ==
    {TPlus, TMinus, TAsterisk, TSlash, TLess, TGreater, TEq, TNotEq}

\* the prefix operators an operand may carry: none, - or ! on the first two
\* operands, none or - on the later ones
PrefixChoices(i) ==
    IF i <= 2 THEN {<<>>, <<TMinus>>, <<TBang>>} ELSE {<<>>, <<TMinus>>}

Atom(i, lit) == IF lit = "int" THEN TInt(<<"5">>) ELSE TIdent(Letters[i])

\* the operator expressions with exactly k operands, each operand an
\* identifier (lit = "ident") or an integer literal (lit = "int")
RECURSIVE ExprsOf(_, _)
ExprsOf(k, lit) ==
    IF k = 1 THEN {pre \o <<Atom(1, lit)>> : pre \in PrefixChoices(1)}
    ELSE {e \o <<op>> \o pre \o <<Atom(k, lit)>> :
             e \in ExprsOf(k - 1, lit), op \in BinaryTokens,
             pre \in PrefixChoices(k)}

ExprInputs ==
    UNION {ExprsOf(k, "ident") : k \in 1..MaxOperands}
    \cup UNION {ExprsOf(k, "int") : k \in 1..(MaxOperands - 1)}

StmtAlphabet ==
    {TLet, TReturn, TIdent("x"), TAssign, TInt(<<"5">>), TSemicolon}

\* every token stream of at most MaxStmtToks tokens over StmtAlphabet
StmtInputs == UNION {[1..k -> StmtAlphabet] : k \in 0..MaxStmtToks}

\* let x = 5; x;
SrcLetThenUse ==
    <<TLet, TIdent("x"), TAssign, TInt(<<"5">>), TSemicolon,
      TIdent("x"), TSemicolon>>

\* return 5;
SrcReturn == <<TReturn, TInt(<<"5">>), TSemicolon>>

\* a + f(b) * c
SrcCallInSum ==
    <<TIdent("a"), TPlus, TIdent("f"), TLparen, TIdent("b"), TRparen,
      TAsterisk, TIdent("c")>>

\* fn(x) { x }
SrcFunctionLiteral ==
    <<TFunction, TLparen, TIdent("x"), TRparen, TLbrace, TIdent("x"),
      TRbrace>>

\* f(b)
SrcCall == <<TIdent("f"), TLparen, TIdent("b"), TRparen>>

\* if (a < b) { a } else { b }
SrcIfElse ==
    <<TIf, TLparen, TIdent("a"), TLess, TIdent("b"), TRparen, TLbrace,
      TIdent("a"), TRbrace, TElse, TLbrace, TIdent("b"), TRbrace>>

\* if (a) { b      (the block is not closed)
SrcOpenBlock == <<TIf, TLparen, TIdent("a"), TRparen, TLbrace, TIdent("b")>>

\* if (a) { let x = 5      (a let without ; inside a block that is not closed)
SrcOpenBlockLet ==
    <<TIf, TLparen, TIdent("a"), TRparen, TLbrace, TLet, TIdent("x"),
      TAssign, TInt(<<"5">>)>>

\* (a + b) * c
SrcGrouped ==
    <<TLparen, TIdent("a"), TPlus, TIdent("b"), TRparen, TAsterisk,
      TIdent("c")>>

\* !(true == true)
SrcBangGrouped ==
    <<TBang, TLparen, TTrue, TEq, TTrue, TRparen>>

\* let x = 5;
SrcLet == <<TLet, TIdent("x"), TAssign, TInt(<<"5">>), TSemicolon>>

\* let x = 5      (no ; before the end of input)
SrcLetNoSemicolon == <<TLet, TIdent("x"), TAssign, TInt(<<"5">>)>>

\* let = 5;
SrcLetNoName == <<TLet, TAssign, TInt(<<"5">>), TSemicolon>>

\* let x 5;
SrcLetNoAssign == <<TLet, TIdent("x"), TInt(<<"5">>), TSemicolon>>

\* fn() { let = 5; }
SrcBlockLetNoName ==
    <<TFunction, TLparen, TRparen, TLbrace, TLet, TAssign, TInt(<<"5">>),
      TSemicolon, TRbrace>>

ScenarioInputs ==
    {SrcLetThenUse, SrcReturn, SrcCallInSum, SrcFunctionLiteral, SrcCall,
     SrcIfElse, SrcOpenBlock, SrcOpenBlockLet, SrcGrouped, SrcBangGrouped,
     SrcLet, SrcLetNoSemicolon, SrcLetNoName, SrcLetNoAssign,
     SrcBlockLetNoName}

\* one integer literal of at most MaxDigits digits, leading zeros included
LiteralDigits == {"0", "1", "2", "7", "8", "9"}

IntInputs ==
    {<<TInt(cs)>> :
        cs \in UNION {[1..k -> LiteralDigits] : k \in 1..MaxDigits}}

ParserInputs ==
    ExprInputs \cup StmtInputs \cup ScenarioInputs \cup IntInputs

(***************************************************************************)
(* The parser as the commands drive it: New, then ParseProgram, one loop   *)
(* iteration at a time.                                                    *)
(***************************************************************************)
NoParser ==
    [l |-> [toks |-> <<>>, read |-> 0], curToken |-> ZeroToken,
     peekToken |-> ZeroToken, errors |-> <<>>, spin |-> FALSE]

NoHeap ==
    [envs |-> <<>>, nobj |-> FirstFree, log |-> <<>>, calls |-> <<>>,
     mem |-> <<>>]

InitParser ==
    /\ input \in ParserInputs
    /\ pc = "new"
    /\ parser = NoParser
    /\ program = <<>>
    /\ heap = NoHeap
    /\ stmtIdx = 0
    /\ result = Nil

\* p := parser.New(l)
NewParser ==
    /\ pc = "new"
    /\ parser' = New(input)
    /\ pc' = "parse"
    /\ UNCHANGED <<input, program, heap, stmtIdx, result>>

\* one iteration of the loop of ParseProgram, from parser p with statements
\* stmts appended so far.  When the statement's skip loop spins, the call
\* never returns: nothing is appended and p.spin is set (of the parser only
\* the flag and the token pair is meaningful from then on).
ParseProgramStep(p, stmts) ==
    LET Stmt(s) ==
            IF s.p.spin THEN [p |-> s.p, stmts |-> stmts]
            ELSE [p |-> nextToken(s.p),
                  stmts |-> IF s.node # Nil THEN Append(stmts, s.node)
                            ELSE stmts]
    IN Stmt(parseStatement(p))

\* ParseProgram run to its end: the statements, the parser it leaves, and
\* whether it returned at all
RECURSIVE ParseProgramLoop(_, _)
ParseProgramLoop(p, stmts) ==
    IF p.spin \/ p.curToken.Type = EOF THEN [p |-> p, stmts |-> stmts]
    ELSE LET Step(r) == ParseProgramLoop(r.p, r.stmts)
         IN Step(ParseProgramStep(p, stmts))

ParseProgram(p) == ParseProgramLoop(p, <<>>)

ParseProgramIter ==
    /\ pc = "parse"
    /\ parser.curToken.Type # EOF
    /\ LET Step(r) ==
               /\ parser' = r.p
               /\ program' = r.stmts
               /\ pc' = IF r.p.spin THEN "spin" ELSE "parse"
       IN Step(ParseProgramStep(parser, program))
    /\ UNCHANGED <<input, heap, stmtIdx, result>>

\* the loop condition fails: ParseProgram returns the program
ParseProgramReturn ==
    /\ pc = "parse"
    /\ parser.curToken.Type = EOF
    /\ pc' = "done"
    /\ UNCHANGED <<input, parser, program, heap, stmtIdx, result>>

\* an iteration of the skip loop at EOF: one more nextToken, nothing consumed
SpinIter ==
    /\ pc = "spin"
    /\ parser.l.read < Len(input) + 2 + MaxSpin
    /\ parser' = nextToken(parser)
    /\ UNCHANGED <<input, pc, program, heap, stmtIdx, result>>

NextParser == NewParser \/ ParseProgramIter \/ ParseProgramReturn \/ SpinIter

SpecParser == InitParser /\ [][NextParser]_vars

(***************************************************************************)
(* Inputs of the evaluator: syntax trees, written as the nodes of package  *)
(* ast with the tokens the lexer gives their first token.                  *)
(***************************************************************************)
AId(c) == Identifier(TIdent(c), <<c>>)

AInt(n) == IntegerLiteral(TInt(Decimal(n)), n)

ABool(b) == Boolean(IF b THEN TTrue ELSE TFalse, b)

APrefix(tok, right) == PrefixExpression(tok, tok.Literal, right)

AInfix(left, tok, right) == InfixExpression(tok, left, tok.Literal, right)

ABlock(stmts) == BlockStatement(TLbrace, stmts)

AIf(condition, consequence) ==
    IfExpression(TIf, condition, ABlock(consequence), NilBlock)

AIfElse(condition, consequence, alternative) ==
    IfExpression(TIf, condition, ABlock(consequence), ABlock(alternative))

AFn(params, body) ==
    FunctionLiteral(TFunction, [i \in 1..Len(params) |-> AId(params[i])],
                    ABlock(body))

ACall(function, arguments) == CallExpression(TLparen, function, arguments)

ALet(c, value) == LetStatement(TLet, AId(c), value)

AReturn(value) == ReturnStatement(TReturn, value)

\* the token an expression starts with
RECURSIVE FirstToken(_)
FirstToken(e) ==
    CASE e.kind = "InfixExpression" -> FirstToken(e.Left)
      [] e.kind = "CallExpression" -> FirstToken(e.Function)
      [] OTHER -> e.Token

AExpr(e) == ExpressionStatement(FirstToken(e), e)

MaxStmts == 3

\* operands of every kind of value: integers, booleans (literal and
\* computed), null, an unbound identifier, which is an Error, an if on
\* one, and a function
Operands ==
    {AInt(1), AInt(2), ABool(TRUE), ABool(FALSE),
     AInfix(AInt(1), TLess, AInt(2)), APrefix(TBang, ABool(TRUE)),
     AIf(ABool(FALSE), <<AExpr(AInt(1))>>), AId("u"),
     AIf(AId("u"), <<AExpr(AInt(1))>>), AFn(<<>>, <<AExpr(AInt(1))>>)}

\* one expression statement: a prefix or an infix operator on operands
OperatorPrograms ==
    {<<AExpr(APrefix(op, x))>> : op \in {TBang, TMinus}, x \in Operands}
    \cup {<<AExpr(AInfix(x, op, y))>> :
            op \in BinaryTokens, x \in Operands, y \in Operands}

\* integer operands: literals up to the largest one, their negations and
\* the smallest integer, which no literal denotes
IntLiterals == {0, 1, 2, 7, MaxInt64}

IntOperands ==
    {AInt(n) : n \in IntLiterals}
    \cup {APrefix(TMinus, AInt(n)) : n \in IntLiterals}
    \cup {AInfix(APrefix(TMinus, AInt(MaxInt64)), TMinus, AInt(1))}

IntegerPrograms ==
    {<<AExpr(AInfix(x, op, y))>> :
        op \in BinaryTokens, x \in IntOperands, y \in IntOperands}

\* conditions: every operand and the integer 0, under ! and as the
\* condition of an if with and without an alternative
Conditions == Operands \cup {AInt(0)}

ConditionPrograms ==
    {<<AExpr(APrefix(TBang, c))>> : c \in Conditions}
    \cup {<<AExpr(AIf(c, <<AExpr(AInt(1))>>))>> : c \in Conditions}
    \cup {<<AExpr(AIfElse(c, <<AExpr(AInt(1))>>, <<AExpr(AInt(7))>>))>> :
             c \in Conditions}

\* statements that are never reached when return unwinds the blocks around it
UnreachedFromInner == AExpr(AId("p"))

UnreachedFromOuter == AReturn(AInt(2))

UnreachedAfterReturn == AExpr(AInt(2))

\* fn() { if (true) { if (true) { return 1; } p; } return 2; }()
CallNestedReturn ==
    AExpr(ACall(AFn(<<>>,
        <<AExpr(AIf(ABool(TRUE),
              <<AExpr(AIf(ABool(TRUE), <<AReturn(AInt(1))>>)),
                UnreachedFromInner>>)),
          UnreachedFromOuter>>), <<>>))

\* fn() { return 1; 2; }()
CallReturnThenValue ==
    AExpr(ACall(AFn(<<>>, <<AReturn(AInt(1)), UnreachedAfterReturn>>), <<>>))

\* if (true) { let x = 2; }
IfLetX == AExpr(AIf(ABool(TRUE), <<ALet("x", AInt(2))>>))

\* fn() { let x = 3; x }()
CallLetX ==
    AExpr(ACall(AFn(<<>>, <<ALet("x", AInt(3)), AExpr(AId("x"))>>), <<>>))

\* let f = fn() { x };
LetF == ALet("f", AFn(<<>>, <<AExpr(AId("x"))>>))

\* fn(x) { f() }(2)
CallShadowingF ==
    AExpr(ACall(AFn(<<"x">>, <<AExpr(ACall(AId("f"), <<>>))>>),
                <<AInt(2)>>))

StmtMenu ==
    {ALet("x", AInt(1)), AExpr(AId("x")), IfLetX, CallLetX, LetF,
     CallShadowingF, AExpr(ACall(AId("f"), <<>>)), CallNestedReturn,
     CallReturnThenValue,
     AReturn(AId("x")), ALet("y", AId("u")), ALet("y", AInt(4)),
     AExpr(ACall(AId("x"), <<AId("u")>>))}

MenuPrograms == UNION {[1..k -> StmtMenu] : k \in 0..MaxStmts}

\* fn() { return if (true) { return 1; } }()
CallReturnOfIfReturn ==
    ACall(AFn(<<>>,
              <<AReturn(AIf(ABool(TRUE), <<AReturn(AInt(1))>>))>>), <<>>)

\* the call alone, before another statement, bound by a let and as an operand
NestedReturnPrograms ==
    {<<AExpr(CallReturnOfIfReturn)>>,
     <<AExpr(CallReturnOfIfReturn), AExpr(AInt(3))>>,
     <<ALet("y", CallReturnOfIfReturn), AExpr(AId("y"))>>,
     <<AExpr(APrefix(TBang, CallReturnOfIfReturn))>>}

\* expressions without a value: if (true) { }, if (true) { let x = 2; }
\* and fn() { }()
IfEmpty == AIf(ABool(TRUE), <<>>)

IfEndsWithLet == AIf(ABool(TRUE), <<ALet("x", AInt(2))>>)

CallEmptyBody == ACall(AFn(<<>>, <<>>), <<>>)

Valueless == {IfEmpty, IfEndsWithLet, CallEmptyBody}

\* each of them in every position whose value goes to an Error check: the
\* operand of a prefix and of an infix operator, a condition, a callee, a
\* call argument and the value of a let and of a return
ValuelessPrograms ==
    UNION {{<<AExpr(APrefix(TBang, v))>>,
            <<AExpr(AInfix(v, TPlus, AInt(1)))>>,
            <<AExpr(AInfix(AInt(1), TPlus, v))>>,
            <<AExpr(AIf(v, <<AExpr(AInt(1))>>))>>,
            <<AExpr(ACall(v, <<>>))>>,
            <<AExpr(ACall(AFn(<<"a">>, <<AExpr(AId("a"))>>), <<v>>))>>,
            <<ALet("z", v)>>,
            <<AReturn(v)>>} : v \in Valueless}

\* fn(a, b) { a - b } and fn(a, b, c) { a }
FnSub == AFn(<<"a", "b">>, <<AExpr(AInfix(AId("a"), TMinus, AId("b")))>>)

FnThree == AFn(<<"a", "b", "c">>, <<AExpr(AId("a"))>>)

\* arguments: integers and the identifiers v and w, which nothing binds
Arguments == {AInt(4), AInt(7), AId("v"), AId("w")}

\* fn(a, b) { a - b }(7, 2) and fn(a, b, c) { a } on every three arguments
ArgumentPrograms ==
    {<<AExpr(ACall(FnSub, <<AInt(7), AInt(2)>>))>>}
    \cup {<<AExpr(ACall(FnThree, args))>> : args \in [1..3 -> Arguments]}

\* let x = 1; let x = 2; x
ProgRebind == <<ALet("x", AInt(1)), ALet("x", AInt(2)), AExpr(AId("x"))>>

\* let x = 1; fn() { let x = 3; x }(); x
ProgLetInBody == <<ALet("x", AInt(1)), CallLetX, AExpr(AId("x"))>>

\* let x = 1; let g = fn() { let x = 3; x }; fn(x) { g(); x }(4)
ProgLetInCallee ==
    <<ALet("x", AInt(1)),
      ALet("g", AFn(<<>>, <<ALet("x", AInt(3)), AExpr(AId("x"))>>)),
      AExpr(ACall(AFn(<<"x">>, <<AExpr(ACall(AId("g"), <<>>)),
                                 AExpr(AId("x"))>>),
                  <<AInt(4)>>))>>

LetPrograms == {ProgRebind, ProgLetInBody, ProgLetInCallee}

EvalPrograms ==
    OperatorPrograms \cup IntegerPrograms \cup ConditionPrograms
    \cup MenuPrograms \cup NestedReturnPrograms \cup ValuelessPrograms
    \cup ArgumentPrograms \cup LetPrograms

(***************************************************************************)
(* The evaluator as the eval command drives it: Eval of the program in a   *)
(* new environment, the loop of evalProgram one statement at a time.       *)
(***************************************************************************)
\* the environment of the program
Global == 1

InitEval ==
    /\ program \in EvalPrograms
    /\ input = <<>>
    /\ parser = NoParser
    /\ pc = "eval"
    /\ heap = NewEnvironment(NoHeap).h
    /\ stmtIdx = 1
    /\ result = NilObject

EvalProgramIter ==
    /\ pc = "eval"
    /\ stmtIdx <= Len(program)
    /\ LET Step(s) ==
               /\ heap' = s.r.h
               /\ result' = IF s.r.panic THEN result ELSE s.r.val
               /\ pc' = IF s.r.panic THEN "panic"
                        ELSE IF s.returns THEN "done" ELSE "eval"
               /\ stmtIdx' = IF s.returns THEN stmtIdx ELSE stmtIdx + 1
       IN Step(evalProgramStep(program, stmtIdx, Global, heap))
    /\ UNCHANGED <<input, parser, program>>

EvalProgramReturn ==
    /\ pc = "eval"
    /\ stmtIdx > Len(program)
    /\ pc' = "done"
    /\ UNCHANGED <<input, parser, program, heap, stmtIdx, result>>

NextEval == EvalProgramIter \/ EvalProgramReturn

SpecEval == InitEval /\ [][NextEval]_vars

(***************************************************************************)
(* The builtin functions and applyFunction as a host drives them: calls on *)
(* the objects bound in the global environment, every Array a call returns *)
(* bound in turn.  input is the call just made (op names the function the  *)
(* host called), result what it returned;                                  *)
(* heap.log keeps, for every Array, its elements when it was returned.     *)
(***************************************************************************)
MaxCalls == 3
MaxSlack == 1

IntOne == [type |-> INTEGER_OBJ, Value |-> 1, addr |-> FirstFree + 1]

IntTwo == [type |-> INTEGER_OBJ, Value |-> 2, addr |-> FirstFree + 2]

StrEmpty == [type |-> STRING_OBJ, Value |-> <<>>, addr |-> FirstFree + 3]

StrAB == [type |-> STRING_OBJ, Value |-> <<"a", "b">>, addr |-> FirstFree + 4]

\* fn() { 1 }, defined in the global environment
FnOne ==
    [type |-> FUNCTION_OBJ, Parameters |-> <<>>,
     Body |-> ABlock(<<AExpr(AInt(1))>>), Env |-> Global,
     addr |-> FirstFree + 5]

\* the Array of the first n of the elements 1, 2, its capacity its length
ArrayOf(n) ==
    [type |-> ARRAY_OBJ,
     Elements |-> IF n = 0 THEN NilSlice
                  ELSE [arr |-> 1, off |-> 0, len |-> n, cap |-> n],
     addr |-> FirstFree + 6]

Returned(name, val, h) ==
    [node |-> name, env |-> Global, val |-> val,
     elems |-> Elements(h, val.Elements)]

InitBuiltins ==
    /\ \E n \in 0..2 :
          LET mem == IF n = 0 THEN <<>>
                     ELSE <<[i \in 1..n |-> IF i = 1 THEN IntOne ELSE IntTwo]>>
              h == [NoHeap EXCEPT !.mem = mem, !.nobj = FirstFree + 6]
          IN heap = [h EXCEPT
                       !.envs = <<[store |->
                                     (<<"x">> :> IntOne) @@ (<<"y">> :> IntTwo)
                                     @@ (<<"s">> :> StrEmpty)
                                     @@ (<<"t">> :> StrAB)
                                     @@ (<<"f">> :> FnOne)
                                     @@ (<<"a">> :> ArrayOf(n)),
                                   outer |-> 0]>>,
                       !.log = <<Returned(<<"a">>, ArrayOf(n), h)>>]
    /\ input = <<>>
    /\ parser = NoParser
    /\ program = <<>>
    /\ pc = "call"
    /\ stmtIdx = 0
    /\ result = NilObject

\* the objects a call may take
Values == {heap.envs[Global].store[n] : n \in DOMAIN heap.envs[Global].store}

\* the argument lists of the builtins of one argument
UnaryArgs == {<<>>, <<IntOne, IntTwo>>} \cup {<<v>> : v \in Values}

\* the argument lists of push
PushArgs ==
    {<<v>> \o xs : v \in Values \cup {NULL},
                   xs \in {<<>>, <<IntOne>>, <<IntTwo>>, <<IntOne, IntTwo>>}}

\* the call fn(args) returned r: an Array is bound to the next name
Called(op, fn, args, r) ==
    /\ input' = [op |-> op, fn |-> fn, args |-> args]
    /\ stmtIdx' = stmtIdx + 1
    /\ pc' = IF r.panic THEN "panic" ELSE "call"
    /\ result' = IF r.panic THEN result ELSE r.val
    /\ heap' = IF ~r.panic /\ r.val.type = ARRAY_OBJ
               THEN [Set(r.h, Global, <<"r", Digits[stmtIdx + 1]>>, r.val).h
                        EXCEPT !.log = Append(@,
                            Returned(<<"r", Digits[stmtIdx + 1]>>, r.val, r.h))]
               ELSE r.h
    /\ UNCHANGED <<parser, program>>

CallLen ==
    /\ pc = "call" /\ stmtIdx < MaxCalls
    /\ \E args \in UnaryArgs : Called("len", builtins["len"], args, len(args, heap))

CallFirst ==
    /\ pc = "call" /\ stmtIdx < MaxCalls
    /\ \E args \in UnaryArgs :
          Called("first", builtins["first"], args, first(args, heap))

CallLast ==
    /\ pc = "call" /\ stmtIdx < MaxCalls
    /\ \E args \in UnaryArgs :
          Called("last", builtins["last"], args, last(args, heap))

CallRest ==
    /\ pc = "call" /\ stmtIdx < MaxCalls
    /\ \E args \in UnaryArgs :
          Called("rest", builtins["rest"], args, rest(args, heap))

\* the runtime gives a new backing array at least the capacity needed
CallPush ==
    /\ pc = "call" /\ stmtIdx < MaxCalls
    /\ \E args \in PushArgs : \E slack \in 0..MaxSlack :
          Called("push", builtins["push"], args,
                 push(args,
                      IF args[1].type = ARRAY_OBJ
                      THEN args[1].Elements.len + Len(args) - 1 + slack
                      ELSE 0,
                      heap))

\* applyFunction(fn, args) on any object as fn
Apply ==
    /\ pc = "call" /\ stmtIdx < MaxCalls
    /\ \E fn \in Values \cup {builtins[n] : n \in DOMAIN builtins} :
       \E args \in {<<>>, <<StrAB>>} :
          Called("applyFunction", fn, args, applyFunction(fn, args, heap))

NextBuiltins ==
    CallLen \/ CallFirst \/ CallLast \/ CallRest \/ CallPush \/ Apply

SpecBuiltins == InitBuiltins /\ [][NextBuiltins]_vars

(***************************************************************************)
(* The lexer as the parser drives it: New on the input, then NextToken,    *)
(* call after call, also after it has returned EOF.  parser.l is the       *)
(* lexer, result the token of the last call, and program keeps for every   *)
(* call its token and the position of the lexer before the call, at the    *)
(* first byte of the token (after the whitespace) and after the call.      *)
(***************************************************************************)
MaxInput == 3
MaxEOF == 2

\* every input of at most MaxInput bytes over a letter, a digit, a blank,
\* delimiters, the quote, operators and the byte 0
LexerAlphabet == {"a", "1", " ", ";", ":", "\"", "=", "!", NUL}

\* , ; : ( ) { } [ ]
SrcDelimiters ==
    <<",", " ", ";", " ", ":", " ", "(", " ", ")", " ", "{", " ", "}", " ",
      "[", " ", "]">>

Chars(word) == [i \in 1..Len(word) |-> SubSeq(word, i, i)]

\* every keyword alone, before a blank and an identifier, and run together
\* with a letter, a digit or an underscore
SrcWords ==
    UNION {{Chars(k), Chars(k \o " x"), Chars(k \o "x"), Chars(k \o "1"),
            Chars("x" \o k), Chars(k \o "_")} : k \in DOMAIN keywords}
    \cup {Chars("a1"), Chars("_a b"), Chars("Ab;")}

LexerInputs ==
    UNION {[1..k -> LexerAlphabet] : k \in 0..MaxInput}
    \cup {SrcDelimiters} \cup SrcWords

InitLexer ==
    /\ input \in LexerInputs
    /\ parser = [NoParser EXCEPT !.l = LexerNew(input)]
    /\ program = <<>>
    /\ pc = "lex"
    /\ heap = NoHeap
    /\ stmtIdx = 0
    /\ result = ZeroToken

\* tok := l.NextToken()
CallNextToken ==
    /\ pc = "lex"
    /\ stmtIdx < Len(input) + MaxEOF
    /\ LET Returned_(r) ==
               /\ parser' = [parser EXCEPT !.l = r.l]
               /\ result' = r.tok
               /\ program' = Append(program,
                     [tok |-> r.tok, from |-> parser.l.position,
                      start |-> skipWhitespace(parser.l).position,
                      to |-> r.l.position])
       IN Returned_(NextToken(parser.l))
    /\ stmtIdx' = stmtIdx + 1
    /\ UNCHANGED <<input, pc, heap>>

NextLexer == CallNextToken

SpecLexer == InitLexer /\ [][NextLexer]_vars

(***************************************************************************)
(* The reference precedence parse of an operator expression, stated on the *)
(* token stream without reference to the parser: the expression splits at  *)
(* its last binary operator of the lowest rung, and a prefix operator      *)
(* applies to the operand that follows it.                                 *)
(***************************************************************************)
IsOperandToken(t) == t.Type \in {IDENT, INT}

\* the rung of a binary operator on the ladder, by its text
RefRung(lit) ==
    CASE lit \in {<<"=", "=">>, <<"!", "=">>} -> 1
      [] lit \in {<<"<">>, <<">">>} -> 2
      [] lit \in {<<"+">>, <<"-">>} -> 3
      [] lit \in {<<"*">>, <<"/">>} -> 4

\* the positions of e that hold a binary operator: an operator token that
\* follows an operand
BinaryAt(e) ==
    {i \in 2..Len(e) : e[i] \in BinaryTokens /\ IsOperandToken(e[i - 1])}

RECURSIVE RefParen(_)
RefParen(e) ==
    IF BinaryAt(e) = {}
    THEN IF IsOperandToken(e[1]) THEN e[1].Literal
         ELSE <<"(">> \o e[1].Literal \o RefParen(Tail(e)) \o <<")">>
    ELSE LET lowest ==
                 CHOOSE r \in 1..4 :
                     /\ \E i \in BinaryAt(e) : RefRung(e[i].Literal) = r
                     /\ \A i \in BinaryAt(e) : RefRung(e[i].Literal) >= r
             at == CHOOSE i \in BinaryAt(e) :
                     /\ RefRung(e[i].Literal) = lowest
                     /\ \A j \in BinaryAt(e) :
                            RefRung(e[j].Literal) = lowest => j <= i
         IN <<"(">> \o RefParen(SubSeq(e, 1, at - 1)) \o <<" ">>
            \o e[at].Literal \o <<" ">>
            \o RefParen(SubSeq(e, at + 1, Len(e))) \o <<")">>

\* C1: when ParseProgram has returned on an operator expression (identifiers,
\* integer literals, prefix - and !, binary + - * / < > == !=), String() of
\* the program is the fully parenthesised reference precedence parse of the
\* input (tighter rungs bind first, equal rungs group to the left) and no
\* error was recorded.
C1_PrattPrecedence ==
    (pc = "done" /\ input \in ExprInputs) =>
        /\ String(Program(program)) = Written(RefParen(input))
        /\ parser.errors = <<>>

\* C1 witness: a + b / c was parsed and printed as (a + (b / c))
C1_Witness ==
    /\ pc = "done"
    /\ input = <<TIdent("a"), TPlus, TIdent("b"), TSlash, TIdent("c")>>
    /\ Str(String(Program(program)).out) = "(a + (b / c))"

\* C2: a let statement and a return statement store the parsed expression
\* in Value and ReturnValue, so that evaluating the parse of let x = 5; x;
\* yields the integer 5
C2_LetReturnStoreValue ==
    pc = "done" =>
        /\ \A i \in 1..Len(program) :
              /\ (program[i].kind = "LetStatement" /\ ~IsNilPtr(program[i]))
                    => program[i].Value # Nil
              /\ program[i].kind = "ReturnStatement"
                    => program[i].ReturnValue # Nil
        /\ input = SrcLetThenUse =>
              LET Yields5(r) ==
                      /\ ~r.panic
                      /\ r.val.type = INTEGER_OBJ
                      /\ r.val.Value = 5
              IN Yields5(evalProgram(program, Global,
                                     NewEnvironment(NoHeap).h))

\* C3: ParseProgram terminates on every input: the parser never enters a
\* loop whose iterations leave it at EOF without leaving the loop
C3_ParseProgramTerminates == pc # "spin"

\* C4: function literals and calls parse, a call binding tighter than any
\* binary operator: a + f(b) * c is (a + (f(b) * c)), fn(x) { x } is a
\* FunctionLiteral and f(b) a CallExpression, with no error recorded
C4_FunctionsAndCallsParse ==
    pc = "done" =>
        /\ input = SrcCallInSum =>
              /\ ~String(Program(program)).panic
              /\ Str(String(Program(program)).out) = "(a + (f(b) * c))"
              /\ parser.errors = <<>>
        /\ input = SrcFunctionLiteral =>
              /\ parser.errors = <<>>
              /\ Len(program) = 1
              /\ program[1].Expression.kind = "FunctionLiteral"
        /\ input = SrcCall =>
              /\ parser.errors = <<>>
              /\ Len(program) = 1
              /\ program[1].Expression.kind = "CallExpression"

(***************************************************************************)
(* Properties of the evaluator, read off the history of completed Eval     *)
(* calls.  A call is entered when it returns, so the entry before that of  *)
(* a construct is that of the last part of it that was evaluated.          *)
(***************************************************************************)
\* let x = 1; let f = fn() { x }; fn(x) { f() }(2)
ProgClosure == <<ALet("x", AInt(1)), LetF, CallShadowingF>>

\* C5: the environment built for an invocation has as outer the environment
\* in which the function literal was evaluated, so that the free x of f is
\* the x of the definition environment (1) although the caller binds x to 2
C5_ClosureCapture ==
    /\ \A i \in 1..Len(heap.calls) :
          \E k \in 1..Len(heap.log) :
              /\ heap.log[k].node.kind = "FunctionLiteral"
              /\ heap.log[k].val = heap.calls[i].fn
              /\ heap.envs[heap.calls[i].env].outer = heap.log[k].env
    /\ (pc = "done" /\ program = ProgClosure) =>
          /\ result.type = INTEGER_OBJ
          /\ result.Value = 1

\* C5 witness: f was called from the environment of fn(x), where x is 2,
\* its own environment hangs off the global one, and the call yielded 1
C5_Witness ==
    /\ pc = "done"
    /\ program = ProgClosure
    /\ Len(heap.calls) = 2
    /\ heap.envs[2].store[<<"x">>].Value = 2
    /\ heap.envs[3].outer = Global
    /\ result.Value = 1

IsReturnValue(v) == v.type = RETURN_VALUE_OBJ

IsErrorObject(v) == v.type = ERROR_OBJ

\* C6: a block that yields a ReturnValue yields the very object its last
\* evaluated statement yielded, a call whose body yields a ReturnValue
\* yields the wrapped value, and the statements that follow a return in the
\* blocks around it are never evaluated
C6_ReturnUnwinds ==
    /\ \A k \in 1..Len(heap.log) :
          heap.log[k].node \notin
              {UnreachedFromInner, UnreachedFromOuter, UnreachedAfterReturn}
    /\ \A k \in 2..Len(heap.log) :
          LET b == heap.log[k]
              s == heap.log[k - 1]
          IN /\ (b.node.kind = "BlockStatement" /\ IsReturnValue(b.val)) =>
                   /\ s.val = b.val
                   /\ \E i \in 1..Len(b.node.Statements) :
                         b.node.Statements[i] = s.node
             /\ (b.node.kind = "CallExpression"
                 /\ s.node.kind = "BlockStatement"
                 /\ IsReturnValue(s.val)) => b.val = s.val.Value
    /\ (pc = "done" /\ program = <<CallNestedReturn>>) =>
          /\ result.type = INTEGER_OBJ
          /\ result.Value = 1
    /\ (pc = "done" /\ program = <<CallReturnThenValue>>) =>
          /\ result.type = INTEGER_OBJ
          /\ result.Value = 1

\* C6 witness: the return inside two if blocks of a function body was
\* evaluated and the call yielded its value
C6_Witness ==
    /\ pc = "done"
    /\ program = <<CallNestedReturn>>
    /\ \E k \in 1..Len(heap.log) :
          /\ heap.log[k].node = AReturn(AInt(1))
          /\ IsReturnValue(heap.log[k].val)
    /\ result.Value = 1

\* the names that the let statements in a node bind
RECURSIVE LetNames(_)
LetNames(node) ==
    IF node = Nil \/ IsNilPtr(node) THEN {}
    ELSE CASE node.kind = "LetStatement" ->
                {node.Name.Value} \cup LetNames(node.Value)
           [] node.kind = "ReturnStatement" -> LetNames(node.ReturnValue)
           [] node.kind = "ExpressionStatement" -> LetNames(node.Expression)
           [] node.kind = "BlockStatement" ->
                UNION {LetNames(node.Statements[i]) :
                         i \in 1..Len(node.Statements)}
           [] node.kind = "PrefixExpression" -> LetNames(node.Right)
           [] node.kind = "InfixExpression" ->
                LetNames(node.Left) \cup LetNames(node.Right)
           [] node.kind = "IfExpression" ->
                LetNames(node.Condition) \cup LetNames(node.Consequence)
                \cup LetNames(node.Alternative)
           [] node.kind = "FunctionLiteral" -> LetNames(node.Body)
           [] node.kind = "CallExpression" ->
                LetNames(node.Function)
                \cup UNION {LetNames(node.Arguments[i]) :
                              i \in 1..Len(node.Arguments)}
           [] OTHER -> {}

LastEntry == heap.log[Len(heap.log)]

\* the number of statements of the program evaluated so far
Evaluated ==
    IF pc = "done" /\ stmtIdx <= Len(program) THEN stmtIdx ELSE stmtIdx - 1

\* C7: evalProgram goes on only past statements that yield neither a
\* ReturnValue nor an Error, stops at the first that does, with the inner
\* value or the Error itself as result and that statement as the last
\* evaluation, leaves unbound every name that only later lets bind, and
\* otherwise returns the value of the last statement
C7_ProgramStopsAtReturnOrError ==
    /\ (pc = "eval" /\ stmtIdx > 1) =>
          /\ LastEntry.node = program[stmtIdx - 1]
          /\ LastEntry.env = Global
          /\ ~IsReturnValue(LastEntry.val)
          /\ ~IsErrorObject(LastEntry.val)
          /\ result = LastEntry.val
    /\ (pc = "done" /\ stmtIdx <= Len(program)) =>
          /\ LastEntry.node = program[stmtIdx]
          /\ IsReturnValue(LastEntry.val) \/ IsErrorObject(LastEntry.val)
          /\ IsReturnValue(LastEntry.val) => result = LastEntry.val.Value
          /\ IsErrorObject(LastEntry.val) => result = LastEntry.val
    /\ (pc = "done" /\ stmtIdx > Len(program)) =>
          IF program = <<>> THEN result = NilObject
          ELSE /\ LastEntry.node = program[Len(program)]
               /\ result = LastEntry.val
    /\ pc \in {"eval", "done"} =>
          DOMAIN heap.envs[Global].store \subseteq
              UNION {LetNames(program[i]) : i \in 1..Evaluated}

\* let x = 1; return x; let y = 4;
ProgReturnThenLet ==
    <<ALet("x", AInt(1)), AReturn(AId("x")), ALet("y", AInt(4))>>

\* C7 witness: the program stopped at return x with 1, and y is unbound
C7_Witness ==
    /\ pc = "done"
    /\ program = ProgReturnThenLet
    /\ stmtIdx = 2
    /\ result.Value = 1
    /\ DOMAIN heap.envs[Global].store = {<<"x">>}

\* the parts of a node whose value Eval tests with isError
ErrorChecked(node) ==
    CASE node.kind = "PrefixExpression" -> {node.Right}
      [] node.kind = "InfixExpression" -> {node.Left, node.Right}
      [] node.kind = "IfExpression" -> {node.Condition}
      [] node.kind = "LetStatement" -> {node.Value}
      [] node.kind = "ReturnStatement" -> {node.ReturnValue}
      [] node.kind = "CallExpression" ->
           {node.Function}
           \cup {node.Arguments[i] : i \in 1..Len(node.Arguments)}
      [] OTHER -> {}

\* C8: when the last evaluated part of a prefix, infix, if, let, return or
\* call is one that is tested for errors and it yielded an Error, the
\* construct yields that same Error object; and a let whose value is an
\* Error binds nothing, its name being bound only by a let that succeeded
C8_ErrorShortCircuit ==
    /\ \A k \in 2..Len(heap.log) :
          LET e == heap.log[k]
              c == heap.log[k - 1]
          IN (IsErrorObject(c.val) /\ c.node \in ErrorChecked(e.node)) =>
                e.val = c.val
    /\ \A k \in 1..Len(heap.log) :
          LET e == heap.log[k]
          IN (e.node.kind = "LetStatement" /\ IsErrorObject(e.val)
              /\ e.node.Name.Value \in DOMAIN heap.envs[e.env].store) =>
                \E j \in 1..Len(heap.log) :
                    /\ heap.log[j].node.kind = "LetStatement"
                    /\ heap.log[j].node.Name = e.node.Name
                    /\ heap.log[j].env = e.env
                    /\ heap.log[j].val = NilObject

\* let x = 1; x(u)
ProgCallErrorArgument ==
    <<ALet("x", AInt(1)), AExpr(ACall(AId("x"), <<AId("u")>>))>>

\* C8 witness: the argument u of a call yielded an Error, and the call, which
\* would otherwise have failed on its callee, yielded that Error
C8_Witness ==
    /\ pc = "done"
    /\ program = ProgCallErrorArgument
    /\ IsErrorObject(result)
    /\ result.Message = "identifier not found: u"
    /\ \E k \in 2..Len(heap.log) :
          /\ heap.log[k].node.kind = "CallExpression"
          /\ heap.log[k - 1].node = AId("u")
          /\ heap.log[k].val = heap.log[k - 1].val

\* let x = 1; if (true) { let x = 2; }; x
ProgIfShadow == <<ALet("x", AInt(1)), IfLetX, AExpr(AId("x"))>>

\* let x = 1; fn() { let x = 3; x }(); x
ProgCallShadow == <<ALet("x", AInt(1)), CallLetX, AExpr(AId("x"))>>

\* C9 with every block a scope: after a block in which let x was evaluated,
\* an if block or a function body, x resolves to the outer binding again
C9_LetBlockScoped ==
    pc = "done" =>
        /\ program = ProgIfShadow => result.Value = 1
        /\ program = ProgCallShadow => result.Value = 1

\* C9 amended: the block of an if is evaluated in the environment of the if,
\* so its let overwrites the outer x there (x is 2 afterwards); a function
\* body is evaluated in the new environment of the call, so its let leaves
\* the outer x as it was (x is 1 afterwards, and the global x is never 3)
C9_LetFunctionScoped ==
    /\ \A k \in 2..Len(heap.log) :
          LET e == heap.log[k]
              b == heap.log[k - 1]
          IN /\ (e.node.kind = "IfExpression"
                 /\ b.node \in {e.node.Consequence, e.node.Alternative}) =>
                   b.env = e.env
             /\ (e.node.kind = "CallExpression"
                 /\ b.node.kind = "BlockStatement") =>
                   /\ b.env # e.env
                   /\ \E i \in 1..Len(heap.calls) : heap.calls[i].env = b.env
    /\ <<"x">> \in DOMAIN heap.envs[Global].store =>
          heap.envs[Global].store[<<"x">>].Value \in {1, 2}
    /\ pc = "done" =>
          /\ program = ProgIfShadow => result.Value = 2
          /\ program = ProgCallShadow => result.Value = 1

\* C9 witness: the call whose body binds x to 3 has returned and the x of
\* the program is still 1, while the x of the call environment is 3
C9_Witness ==
    /\ pc = "done"
    /\ program = ProgCallShadow
    /\ heap.envs[2].store[<<"x">>].Value = 3
    /\ heap.envs[Global].store[<<"x">>].Value = 1
    /\ result.Value = 1

\* boolean operands with the value each has
BooleanOperands ==
    {[e |-> ABool(TRUE), v |-> TRUE], [e |-> ABool(FALSE), v |-> FALSE],
     [e |-> AInfix(AInt(1), TLess, AInt(2)), v |-> TRUE],
     [e |-> APrefix(TBang, ABool(TRUE)), v |-> FALSE]}

\* C10: every Boolean that Eval yields is the object TRUE or the object
\* FALSE and every Null is the object NULL, and == and != on two boolean
\* operands give the answer of value equality
C10_Singletons ==
    /\ \A k \in 1..Len(heap.log) :
          /\ heap.log[k].val.type = BOOLEAN_OBJ =>
                heap.log[k].val \in {ObjTRUE, ObjFALSE}
          /\ heap.log[k].val.type = NULL_OBJ => heap.log[k].val = NULL
    /\ pc = "done" =>
          \A x \in BooleanOperands, y \in BooleanOperands :
              /\ program = <<AExpr(AInfix(x.e, TEq, y.e))>> =>
                    result = IF x.v = y.v THEN ObjTRUE ELSE ObjFALSE
              /\ program = <<AExpr(AInfix(x.e, TNotEq, y.e))>> =>
                    result = IF x.v # y.v THEN ObjTRUE ELSE ObjFALSE

\* C10 witness: true == (1 < 2), a literal against a computed boolean,
\* yielded the object TRUE
C10_Witness ==
    /\ pc = "done"
    /\ program = <<AExpr(AInfix(ABool(TRUE), TEq,
                                AInfix(AInt(1), TLess, AInt(2))))>>
    /\ result = ObjTRUE

(***************************************************************************)
(* Properties of one infix expression evaluated as the whole program: its  *)
(* operands are the first entry of the left operand and the entry before   *)
(* that of the expression itself.                                          *)
(***************************************************************************)
\* the program is one infix expression statement and has been evaluated
InfixDone ==
    /\ pc = "done"
    /\ Len(program) = 1
    /\ program[1].kind = "ExpressionStatement"
    /\ program[1].Expression.kind = "InfixExpression"

InfixNode == program[1].Expression

LeftIndex ==
    CHOOSE i \in 1..Len(heap.log) :
        /\ heap.log[i].node = InfixNode.Left
        /\ \A j \in 1..(i - 1) : heap.log[j].node # InfixNode.Left

LeftValue == heap.log[LeftIndex].val

RightValue == heap.log[Len(heap.log) - 2].val

\* both operands were evaluated and neither is an Error
OperandsDone ==
    /\ InfixDone
    /\ Len(heap.log) >= 4
    /\ LeftIndex < Len(heap.log) - 2
    /\ heap.log[Len(heap.log) - 2].node = InfixNode.Right
    /\ ~IsErrorObject(LeftValue)
    /\ ~IsErrorObject(RightValue)

\* "<lt> <op> <rt>" for the operands and operator of the program
OperandText ==
    LeftValue.type \o " " \o Str(InfixNode.Operator) \o " " \o RightValue.type

\* C11: operands of different types yield the Error type mismatch for every
\* operator; operands of one type other than Integer yield a Boolean for ==
\* and != and the Error unknown operator for every other operator
C11_InfixTypeDispatch ==
    OperandsDone =>
        /\ LeftValue.type # RightValue.type =>
              /\ IsErrorObject(result)
              /\ result.Message = "type mismatch: " \o OperandText
        /\ (LeftValue.type = RightValue.type
            /\ LeftValue.type # INTEGER_OBJ) =>
              IF InfixNode.Operator \in {<<"=", "=">>, <<"!", "=">>}
              THEN result \in {ObjTRUE, ObjFALSE}
              ELSE /\ IsErrorObject(result)
                   /\ result.Message = "unknown operator: " \o OperandText

\* C11 witness: 1 == true, an == on operands of different types, yielded
\* the Error type mismatch
C11_Witness ==
    /\ OperandsDone
    /\ program = <<AExpr(AInfix(AInt(1), TEq, ABool(TRUE)))>>
    /\ IsErrorObject(result)
    /\ result.Message = "type mismatch: INTEGER == BOOLEAN"

\* x is an Integer object holding the 64-bit signed value of n
IsInt64Of(x, n) ==
    /\ x.type = INTEGER_OBJ
    /\ x.Value \in MinInt64..MaxInt64
    /\ (x.Value - n) % (2 ^ IntWidth) = 0

\* the quotient of a by b # 0 truncated toward zero: the remainder is
\* smaller than b and has the sign of a
Truncated(a, b) ==
    CHOOSE q \in (MinInt64 - 1)..(MaxInt64 + 1) :
        LET r == a - q * b
        IN /\ (IF r < 0 THEN -r ELSE r) < (IF b < 0 THEN -b ELSE b)
           /\ r = 0 \/ (r < 0) = (a < 0)

BoolObject(b) == IF b THEN ObjTRUE ELSE ObjFALSE

\* C12: on Integer operands + - * yield the 64-bit signed sum, difference
\* and product, / by a non-zero divisor the quotient truncated toward zero,
\* and < > == != the Boolean singleton of the ordinary comparison; the
\* tree parsed from 1 < 2 carries the operator <
C12_IntegerArithmetic ==
    /\ ParseProgram(New(<<TInt(<<"1">>), TLess, TInt(<<"2">>)>>)).stmts
          = <<AExpr(AInfix(AInt(1), TLess, AInt(2)))>>
    /\ (OperandsDone /\ LeftValue.type = INTEGER_OBJ
        /\ RightValue.type = INTEGER_OBJ) =>
          CASE InfixNode.Operator = <<"+">> ->
                 IsInt64Of(result, LeftValue.Value + RightValue.Value)
            [] InfixNode.Operator = <<"-">> ->
                 IsInt64Of(result, LeftValue.Value - RightValue.Value)
            [] InfixNode.Operator = <<"*">> ->
                 IsInt64Of(result, LeftValue.Value * RightValue.Value)
            [] InfixNode.Operator = <<"/">> ->
                 /\ RightValue.Value # 0
                 /\ IsInt64Of(result,
                              Truncated(LeftValue.Value, RightValue.Value))
            [] InfixNode.Operator = <<"<">> ->
                 result = BoolObject(LeftValue.Value < RightValue.Value)
            [] InfixNode.Operator = <<">">> ->
                 result = BoolObject(LeftValue.Value > RightValue.Value)
            [] InfixNode.Operator = <<"=", "=">> ->
                 result = BoolObject(LeftValue.Value = RightValue.Value)
            [] InfixNode.Operator = <<"!", "=">> ->
                 result = BoolObject(LeftValue.Value # RightValue.Value)

\* C12 witness: -7 / 2 was evaluated and yielded the Integer -3
C12_Witness ==
    /\ OperandsDone
    /\ program = <<AExpr(AInfix(APrefix(TMinus, AInt(7)), TSlash, AInt(2)))>>
    /\ result.type = INTEGER_OBJ
    /\ result.Value = -3

(***************************************************************************)
(* Properties of one ! or if expression evaluated as the whole program.    *)
(***************************************************************************)
\* the program is !c for a condition c and has been evaluated
BangDone ==
    /\ pc = "done"
    /\ program \in {<<AExpr(APrefix(TBang, c))>> : c \in Conditions}

\* the program is an if expression on a condition and has been evaluated
IfDone ==
    /\ pc = "done"
    /\ program \in ConditionPrograms
    /\ program[1].Expression.kind = "IfExpression"

IfNode == program[1].Expression

\* the value of the operand of !, the entry before that of the expression
BangOperand == heap.log[Len(heap.log) - 2].val

\* the value of the condition, the first entry of its node
ConditionValue ==
    heap.log[CHOOSE i \in 1..Len(heap.log) :
                /\ heap.log[i].node = IfNode.Condition
                /\ \A j \in 1..(i - 1) :
                      heap.log[j].node # IfNode.Condition].val

\* the block was evaluated
BlockEvaluated(block) ==
    \E i \in 1..Len(heap.log) : heap.log[i].node = block

\* C13: !x is TRUE exactly when x is FALSE or NULL and FALSE for every other
\* object; an if evaluates its consequence exactly when its condition is
\* neither FALSE nor NULL, otherwise its alternative if there is one, and
\* otherwise yields NULL
C13_Truthiness ==
    /\ (BangDone /\ ~IsErrorObject(BangOperand)) =>
          result = BoolObject(BangOperand \in {ObjFALSE, NULL})
    /\ (IfDone /\ ~IsErrorObject(ConditionValue)) =>
          IF ConditionValue \notin {ObjFALSE, NULL}
          THEN /\ BlockEvaluated(IfNode.Consequence)
               /\ ~BlockEvaluated(IfNode.Alternative)
               /\ result.type = INTEGER_OBJ /\ result.Value = 1
          ELSE IF ~IsNilPtr(IfNode.Alternative)
          THEN /\ ~BlockEvaluated(IfNode.Consequence)
               /\ BlockEvaluated(IfNode.Alternative)
               /\ result.type = INTEGER_OBJ /\ result.Value = 7
          ELSE /\ ~BlockEvaluated(IfNode.Consequence)
               /\ result = NULL

\* C13 witness: if (0) { 1 } else { 7 } took its consequence, on the
\* Integer 0
C13_Witness ==
    /\ IfDone
    /\ program = <<AExpr(AIfElse(AInt(0), <<AExpr(AInt(1))>>,
                                 <<AExpr(AInt(7))>>))>>
    /\ ConditionValue.type = INTEGER_OBJ
    /\ ConditionValue.Value = 0
    /\ BlockEvaluated(IfNode.Consequence)
    /\ result.Value = 1

(***************************************************************************)
(* Identifier resolution, on every environment of every heap the           *)
(* evaluator reaches.                                                      *)
(***************************************************************************)
\* the environments from env outwards, child first
RECURSIVE Chain(_)
Chain(env) ==
    IF heap.envs[env].outer = 0 THEN <<env>>
    ELSE <<env>> \o Chain(heap.envs[env].outer)

\* the positions of the chain of env whose environment binds name
Binders(env, name) ==
    {i \in 1..Len(Chain(env)) : name \in DOMAIN heap.envs[Chain(env)[i]].store}

Names == {<<c>> : c \in {"x", "y", "f", "u", "p"}}

\* C14: an identifier evaluates to the binding of the nearest environment
\* of the chain that binds its name, and to the Error identifier not found
\* only when no environment of the chain binds it; parsing an identifier
\* records no error
C14_IdentifierResolution ==
    /\ ParseProgram(New(<<TIdent("u")>>)).p.errors = <<>>
    /\ ParseProgram(New(<<TIdent("u")>>)).stmts = <<AExpr(AId("u"))>>
    /\ \A env \in 1..Len(heap.envs) : \A name \in Names :
          LET Found(r) ==
                  IF Binders(env, name) = {}
                  THEN /\ IsErrorObject(r.val)
                       /\ r.val.Message = "identifier not found: " \o Str(name)
                  ELSE \E i \in Binders(env, name) :
                          /\ \A j \in Binders(env, name) : i <= j
                          /\ r.val = heap.envs[Chain(env)[i]].store[name]
          IN Found(evalIdentifier(Identifier(TIdent(name[1]), name), env, heap))

\* C14 witness: x was evaluated in a function's environment that does not
\* bind it and yielded the binding of the global environment, while in
\* another environment that binds x the nearest binding differs from it
C14_Witness ==
    /\ pc = "done"
    /\ \E k \in 1..Len(heap.log) :
          /\ heap.log[k].node = AId("x")
          /\ heap.log[k].env # Global
          /\ <<"x">> \notin DOMAIN heap.envs[heap.log[k].env].store
          /\ <<"x">> \in DOMAIN heap.envs[Global].store
          /\ heap.log[k].val = heap.envs[Global].store[<<"x">>]
    /\ \E env \in 1..Len(heap.envs) :
          /\ env # Global
          /\ <<"x">> \in DOMAIN heap.envs[env].store
          /\ <<"x">> \in DOMAIN heap.envs[Global].store
          /\ heap.envs[env].store[<<"x">>] # heap.envs[Global].store[<<"x">>]

(***************************************************************************)
(* Properties of the calls of the builtin functions and of applyFunction.  *)
(***************************************************************************)
\* a call was made; op is the function the host called
CallMade(op) == stmtIdx > 0 /\ "op" \in DOMAIN input /\ input.op = op

\* C15: applyFunction applies a Function to the arguments, invokes the host
\* function of a Builtin and returns its result (len of a String is its
\* byte count), and yields the Error not a function only for a callee of
\* another type
C15_CallDispatch ==
    CallMade("applyFunction") =>
        /\ pc = "call"
        /\ CASE input.fn.type = FUNCTION_OBJ ->
                  result.type = INTEGER_OBJ /\ result.Value = 1
             [] input.fn.type = BUILTIN_OBJ ->
                  /\ ~(IsErrorObject(result)
                       /\ result.Message = "not a function: BUILTIN")
                  /\ (input.fn = builtins["len"] /\ input.args = <<StrAB>>) =>
                        (result.type = INTEGER_OBJ /\ result.Value = 2)
             [] OTHER ->
                  /\ IsErrorObject(result)
                  /\ result.Message = "not a function: " \o input.fn.type

\* the call took one argument, an Array or a String
OnSequence ==
    /\ Len(input.args) = 1
    /\ input.args[1].type \in {ARRAY_OBJ, STRING_OBJ}

\* the elements or bytes of the argument of the call
ArgumentItems ==
    IF input.args[1].type = ARRAY_OBJ
    THEN Elements(heap, input.args[1].Elements)
    ELSE input.args[1].Value

\* the result is item i of the argument: the element of an Array, the
\* String of the byte of a String
IsItem(i) ==
    IF input.args[1].type = ARRAY_OBJ THEN result = ArgumentItems[i]
    ELSE result.type = STRING_OBJ /\ result.Value = <<ArgumentItems[i]>>

\* C19: first of an empty Array or String returns NULL without faulting and
\* of a non-empty one its first element or byte, as last returns NULL on an
\* empty one and the final element or byte otherwise
C19_FirstLast ==
    /\ (CallMade("first") /\ OnSequence) =>
          /\ pc = "call"
          /\ IF Len(ArgumentItems) = 0 THEN result = NULL ELSE IsItem(1)
    /\ (CallMade("last") /\ OnSequence) =>
          /\ pc = "call"
          /\ IF Len(ArgumentItems) = 0 THEN result = NULL
             ELSE IsItem(Len(ArgumentItems))

\* the entries of heap.log that record a returned Array
ArrayEntries == {k \in 1..Len(heap.log) : "elems" \in DOMAIN heap.log[k]}

\* the entry of the Array returned last
LastArray == CHOOSE k \in ArrayEntries : \A j \in ArrayEntries : j <= k

\* C20: push returns an Array of the old elements followed by the appended
\* ones, and every Array, the argument of a call or the result of an
\* earlier one, keeps the elements it had when it was returned
C20_PushKeepsArrays ==
    /\ \A k \in ArrayEntries :
          Elements(heap, heap.log[k].val.Elements) = heap.log[k].elems
    /\ (CallMade("push") /\ pc = "call" /\ Len(input.args) >= 2
        /\ input.args[1].type = ARRAY_OBJ) =>
          /\ result.type = ARRAY_OBJ
          /\ \E k \in ArrayEntries :
                /\ heap.log[k].val = input.args[1]
                /\ heap.log[LastArray].elems
                      = heap.log[k].elems \o Tail(input.args)
          /\ heap.log[LastArray].val = result

(***************************************************************************)
(* expectPeek, on every parser ParseProgram reaches between statements and *)
(* every kind the parser expects.                                          *)
(***************************************************************************)
ExpectedKinds == {IDENT, ASSIGN, LPAREN, RPAREN, LBRACE}

\* the token the lexer hands out next
Upcoming ==
    IF parser.l.read < Len(parser.l.toks)
    THEN parser.l.toks[parser.l.read + 1] ELSE EOFToken

\* C16: when the peek token has the kind, expectPeek advances one token,
\* returns true and leaves the errors; otherwise it leaves cur and peek,
\* appends the one message expected next token to be <kind>, got <actual>
\* instead after the errors and returns false; let = 5; and let x 5; record
\* their messages
C16_ExpectPeek ==
    /\ pc \in {"parse", "done"} =>
          \A t \in ExpectedKinds :
              LET Expected(r) ==
                      IF parser.peekToken.Type = t
                      THEN /\ r.ok
                           /\ r.p.curToken = parser.peekToken
                           /\ r.p.peekToken = Upcoming
                           /\ r.p.l.read = parser.l.read + 1
                           /\ r.p.errors = parser.errors
                      ELSE /\ ~r.ok
                           /\ r.p.curToken = parser.curToken
                           /\ r.p.peekToken = parser.peekToken
                           /\ r.p.l = parser.l
                           /\ r.p.errors =
                                 Append(parser.errors,
                                        "expected next token to be " \o t
                                        \o ", got " \o parser.peekToken.Type
                                        \o " instead")
              IN Expected(expectPeek(parser, t))
    /\ (pc = "done" /\ input = SrcLetNoName) =>
          (Len(parser.errors) >= 1 /\ parser.errors[1]
              = "expected next token to be IDENT, got = instead")
    /\ (pc = "done" /\ input = SrcLetNoAssign) =>
          (Len(parser.errors) >= 1 /\ parser.errors[1]
              = "expected next token to be =, got INT instead")

\* C16 witness: let x 5; was parsed and recorded its message, and on the
\* parser reached, which holds errors, expectPeek fails for every kind
C16_Witness ==
    /\ pc = "done"
    /\ input = SrcLetNoAssign
    /\ parser.errors # <<>>
    /\ parser.errors[1] = "expected next token to be =, got INT instead"
    /\ \A t \in ExpectedKinds : ~expectPeek(parser, t).ok

\* a parser that holds errors and whose peek token has an expected kind
C16_WitnessAdvance ==
    /\ pc = "parse"
    /\ parser.errors # <<>>
    /\ parser.peekToken.Type = ASSIGN
    /\ expectPeek(parser, ASSIGN).ok

(***************************************************************************)
(* Integer literals.                                                       *)
(***************************************************************************)
\* the decimal value of a digit string
RECURSIVE DecimalValue(_)
DecimalValue(cs) ==
    IF cs = <<>> THEN 0
    ELSE 10 * DecimalValue(SubSeq(cs, 1, Len(cs) - 1)) + DigitVal(cs[Len(cs)])

\* C18: an INT token of decimal digits whose decimal value fits in a signed
\* 64-bit integer parses to an IntegerLiteral of that value with no error,
\* leading zeros included; only a literal that overflows records could not
\* parse as integer and yields no node
C18_IntegerLiteral ==
    (pc = "done" /\ input \in IntInputs) =>
        /\ Len(program) = 1
        /\ IF DecimalValue(input[1].Literal) <= MaxInt64
           THEN /\ parser.errors = <<>>
                /\ program[1].Expression
                      = IntegerLiteral(input[1],
                                       DecimalValue(input[1].Literal))
           ELSE /\ parser.errors
                      = <<"could not parse \"" \o Str(input[1].Literal)
                          \o "\" as integer">>
                /\ program[1].Expression = Nil

(***************************************************************************)
(* Printing a parsed program and parsing what was printed.                 *)
(***************************************************************************)
\* the parse of the text printed for the program, and the text it prints
Reparse == ParseProgram(New(Tokens(String(Program(program)).out)))

\* C17: for a program parsed without errors, parsing the text String
\* prints for it records no errors and prints the same text again
C17_RoundTrip ==
    (pc = "done" /\ parser.errors = <<>>) =>
        /\ ~String(Program(program)).panic
        /\ ~Reparse.p.spin
        /\ Reparse.p.errors = <<>>
        /\ String(Program(Reparse.stmts)) = String(Program(program))

(***************************************************************************)
(* Properties of NextToken, on every lexer the calls reach.                *)
(***************************************************************************)
\* the lexer at the first byte of its next token
AtToken == skipWhitespace(parser.l)

DelimiterKind ==
    [c \in {",", ";", ":", "(", ")", "{", "}", "[", "]"} |->
        CASE c = "," -> COMMA
          [] c = ";" -> SEMICOLON
          [] c = ":" -> COLON
          [] c = "(" -> LPAREN
          [] c = ")" -> RPAREN
          [] c = "{" -> LBRACE
          [] c = "}" -> RBRACE
          [] c = "[" -> LBRACKET
          [] c = "]" -> RBRACKET]

\* C21: at each of the delimiters , ; : ( ) { } [ ] NextToken returns the
\* token of its own kind with the character as literal, never ILLEGAL
C21_Delimiters ==
    AtToken.ch \in DOMAIN DelimiterKind =>
        NextToken(parser.l).tok
            = Token(DelimiterKind[AtToken.ch], <<AtToken.ch>>)

\* the bytes [A-Za-z_]
RunBytes ==
    {Chars("abcdefghijklmnopqrstuvwxyzABCDEFGHIJKLMNOPQRSTUVWXYZ_")[i] :
        i \in 1..53}

\* the kinds of the keywords
KeywordKinds ==
    {<<"fn", FUNCTION>>, <<"let", LET_T>>, <<"true", TRUE_T>>,
     <<"false", FALSE_T>>, <<"if", IF_T>>, <<"else", ELSE_T>>,
     <<"return", RETURN>>}

\* the length of the maximal run of bytes of [A-Za-z_] from position pos
RunLength(pos) ==
    CHOOSE n \in 0..(Len(input) - pos) :
        /\ \A i \in 1..n : input[pos + i] \in RunBytes
        /\ pos + n = Len(input) \/ input[pos + n + 1] \notin RunBytes

\* the token r.tok is the run of n bytes from pos, a keyword exactly when
\* the run is one, and the lexer r.l stands at the byte after the run
IsRun(r, pos, n) ==
    /\ r.tok.Literal = SubSeq(input, pos + 1, pos + n)
    /\ IF \E kw \in KeywordKinds : kw[1] = Str(r.tok.Literal)
       THEN \E kw \in KeywordKinds :
               kw[1] = Str(r.tok.Literal) /\ r.tok.Type = kw[2]
       ELSE r.tok.Type = IDENT
    /\ r.l.position = pos + n
    /\ r.l.ch = IF pos + n < Len(input) THEN input[pos + n + 1] ELSE NUL

\* C27: at a byte of [A-Za-z_] NextToken returns the maximal run of such
\* bytes, of the keyword's kind exactly when the run is a keyword and IDENT
\* otherwise, and leaves the lexer at the byte after the run; letx is one
\* IDENT and a1 an IDENT then an INT
C27_IdentifierRun ==
    /\ AtToken.ch \in RunBytes =>
          IsRun(NextToken(parser.l), AtToken.position,
                RunLength(AtToken.position))
    /\ (input = Chars("letx") /\ stmtIdx >= 1) =>
          program[1].tok = Token(IDENT, Chars("letx"))
    /\ (input = Chars("a1") /\ stmtIdx >= 2) =>
          /\ program[1].tok = Token(IDENT, <<"a">>)
          /\ program[2].tok = Token(INT, <<"1">>)

\* C27 witness: a1 was lexed as the IDENT a and then the INT 1
C27_Witness ==
    /\ input = Chars("a1")
    /\ stmtIdx = 2
    /\ program[1].tok = Token(IDENT, <<"a">>)
    /\ program[2].tok = Token(INT, <<"1">>)

\* C28: every call of NextToken that returns a token other than EOF advances
\* the lexer by at least one byte, EOF has the empty literal and is returned
\* only with the lexer past the end of the input, and after an EOF every
\* later call returns EOF
C28_ProgressAndFinalEOF ==
    \A i \in 1..Len(program) :
        IF program[i].tok.Type # EOF
        THEN program[i].to > program[i].from
        ELSE /\ program[i].tok.Literal = <<>>
             /\ program[i].start >= Len(input)
             /\ \A j \in i..Len(program) : program[j].tok.Type = EOF

(***************************************************************************)
(* Properties of calls, return and let.                                    *)
(***************************************************************************)
\* C22: no call expression evaluates to a ReturnValue, no environment binds
\* one, no prefix operator gets one as its operand, and the program goes on
\* after a statement that is a call unless the call is an Error
C22_CallResultIsPlain ==
    /\ \A i \in 1..Len(heap.log) :
          /\ heap.log[i].node.kind = "CallExpression" =>
                ~IsReturnValue(heap.log[i].val)
          /\ i < Len(heap.log) /\ heap.log[i + 1].node.kind = "PrefixExpression"
                /\ heap.log[i + 1].node.Right = heap.log[i].node =>
                ~IsReturnValue(heap.log[i].val)
    /\ \A e \in 1..Len(heap.envs) :
          \A n \in DOMAIN heap.envs[e].store :
              ~IsReturnValue(heap.envs[e].store[n])
    /\ (/\ pc = "done"
        /\ stmtIdx <= Len(program)
        /\ program[stmtIdx].kind = "ExpressionStatement"
        /\ program[stmtIdx].Expression.kind = "CallExpression") =>
          result # NilObject /\ result.type = ERROR_OBJ

\* C26: no Error check gets the host null: the evaluation never ends in a
\* panic right after an Eval that returned null, and an operator on an
\* if-expression with an empty block is evaluated to its end
C26_OperandsAreObjects ==
    /\ ~(/\ pc = "panic"
         /\ Len(heap.log) > 0
         /\ heap.log[Len(heap.log)].val = NilObject)
    /\ (program = <<AExpr(APrefix(TBang, IfEmpty))>> /\ pc # "eval") =>
          pc = "done"

\* the index of the first argument that is an unbound identifier, or 0
FirstError(args) ==
    IF \E i \in 1..Len(args) : args[i].kind = "Identifier"
    THEN CHOOSE i \in 1..Len(args) :
            /\ args[i].kind = "Identifier"
            /\ \A j \in 1..(i - 1) : args[j].kind # "Identifier"
    ELSE 0

\* C25: in a call of a function literal on integers and unbound identifiers
\* the callee is evaluated first and then the arguments in index order;
\* when argument e is the first to yield an Error, no later argument is
\* evaluated, no function environment is built and the call yields that
\* Error; when none errs, parameter k is bound to the value of argument k
C25_ArgumentOrder ==
    (program \in ArgumentPrograms /\ pc = "done") =>
        LET c == program[1].Expression
            e == FirstError(c.Arguments)
            m == IF e = 0 THEN Len(c.Arguments) ELSE e
        IN /\ heap.log[1].node = c.Function
           /\ \A i \in 1..m :
                 /\ heap.log[i + 1].node = c.Arguments[i]
                 /\ heap.log[i + 1].env = Global
           /\ e # 0 =>
                 /\ Len(heap.log) = e + 3
                 /\ heap.log[e + 1].val.type = ERROR_OBJ
                 /\ heap.log[e + 1].val.Message
                       = "identifier not found: "
                             \o Str(c.Arguments[e].Value)
                 /\ heap.log[e + 2].node = c
                 /\ heap.log[e + 2].val = heap.log[e + 1].val
                 /\ result = heap.log[e + 1].val
                 /\ heap.calls = <<>>
           /\ e = 0 =>
                 /\ Len(heap.calls) = 1
                 /\ DOMAIN heap.envs[heap.calls[1].env].store
                       = {c.Function.Parameters[k].Value :
                             k \in 1..Len(c.Arguments)}
                 /\ \A k \in 1..Len(c.Arguments) :
                       /\ heap.envs[heap.calls[1].env]
                              .store[c.Function.Parameters[k].Value]
                             = heap.log[k + 1].val
                       /\ heap.log[k + 1].val.type = INTEGER_OBJ
                       /\ heap.log[k + 1].val.Value = c.Arguments[k].Value
           /\ c.Function = FnSub => result.Value = 5

\* C25 witness: fn(a, b, c) { a }(7, v, w) yielded the Error of v without
\* evaluating w
C25_Witness ==
    /\ program = <<AExpr(ACall(FnThree, <<AInt(7), AId("v"), AId("w")>>))>>
    /\ pc = "done"
    /\ result.type = ERROR_OBJ
    /\ result.Message = "identifier not found: v"
    /\ Len(heap.log) = 5
    /\ heap.calls = <<>>

\* C25 witness of a call without an Error: fn(a, b) { a - b }(7, 2) is 5
C25_WitnessBound ==
    /\ program = <<AExpr(ACall(FnSub, <<AInt(7), AInt(2)>>))>>
    /\ pc = "done"
    /\ result.Value = 5

\* names and objects for Set: names that the programs bind and one that
\* none does, and two objects
SetNames == {<<"x">>, <<"y">>, <<"f">>, <<"q">>}

SetObjects == {NULL, ObjTRUE}

\* Set(name, obj) on the environment env of the heap returns obj, maps name
\* to obj in the store of env, and leaves alone the other names of that
\* store and every other environment
SetWritesOnly(env, name, obj) ==
    LET written == Set(heap, env, name, obj)
    IN /\ written.obj = obj
       /\ Len(written.h.envs) = Len(heap.envs)
       /\ \A e \in 1..Len(heap.envs) :
             e # env => written.h.envs[e] = heap.envs[e]
       /\ written.h.envs[env].outer = heap.envs[env].outer
       /\ DOMAIN written.h.envs[env].store
             = DOMAIN heap.envs[env].store \cup {name}
       /\ written.h.envs[env].store[name] = obj
       /\ \A n \in DOMAIN heap.envs[env].store :
             n # name =>
                written.h.envs[env].store[n] = heap.envs[env].store[n]

\* C24: on every heap the evaluation reaches Set writes only into the store
\* of its own environment, whether the name is new or bound, and returns the
\* object; a let in a function body leaves the x of the definition
\* environment and of the caller's environment as they were, and a second
\* let of x in one environment overwrites the first
C24_SetWritesOwnStore ==
    /\ \A env \in 1..Len(heap.envs) :
          \A name \in SetNames : \A obj \in SetObjects :
              SetWritesOnly(env, name, obj)
    /\ (program = ProgLetInBody /\ pc = "done") =>
          /\ result.Value = 1
          /\ heap.envs[Global].store[<<"x">>].Value = 1
          /\ heap.envs[2].store[<<"x">>].Value = 3
    /\ (program = ProgLetInCallee /\ pc = "done") =>
          /\ result.Value = 4
          /\ heap.envs[Global].store[<<"x">>].Value = 1
          /\ heap.envs[2].store[<<"x">>].Value = 4
          /\ heap.envs[3].store[<<"x">>].Value = 3
          /\ heap.envs[3].outer = Global
    /\ (program = ProgRebind /\ pc = "done") =>
          /\ result.Value = 2
          /\ DOMAIN heap.envs[Global].store = {<<"x">>}

\* C24 witness: the let of x in the body of g, called from a function whose
\* parameter is x, wrote 3 into its own environment only
C24_Witness ==
    /\ program = ProgLetInCallee
    /\ pc = "done"
    /\ result.Value = 4
    /\ heap.envs[Global].store[<<"x">>].Value = 1
    /\ heap.envs[3].store[<<"x">>].Value = 3

(***************************************************************************)
(* Properties of the statement lists the parser builds.                    *)
(***************************************************************************)
\* a statement list holds a null statement
RECURSIVE HoldsNull(_)
RECURSIVE HasNullStatement(_)
HoldsNull(stmts) ==
    \E i \in 1..Len(stmts) :
        IsNilPtr(stmts[i]) \/ HasNullStatement(stmts[i])

\* a block statement inside the node holds a null statement
HasNullStatement(node) ==
    IF node = Nil \/ IsNilPtr(node) THEN FALSE
    ELSE CASE node.kind = "ExpressionStatement" ->
                HasNullStatement(node.Expression)
           [] node.kind = "LetStatement" -> HasNullStatement(node.Value)
           [] node.kind = "ReturnStatement" ->
                HasNullStatement(node.ReturnValue)
           [] node.kind = "BlockStatement" -> HoldsNull(node.Statements)
           [] node.kind = "PrefixExpression" -> HasNullStatement(node.Right)
           [] node.kind = "InfixExpression" ->
                HasNullStatement(node.Left) \/ HasNullStatement(node.Right)
           [] node.kind = "IfExpression" ->
                \/ HasNullStatement(node.Condition)
                \/ HasNullStatement(node.Consequence)
                \/ HasNullStatement(node.Alternative)
           [] node.kind = "FunctionLiteral" -> HasNullStatement(node.Body)
           [] node.kind = "CallExpression" ->
                \/ HasNullStatement(node.Function)
                \/ \E i \in 1..Len(node.Arguments) :
                      HasNullStatement(node.Arguments[i])
           [] OTHER -> FALSE

\* C23: the statements of the program and of every block in it hold no null
\* statement, and after a statement that failed the parser goes on: of
\* let = 5; it reports the missing name and then the = it cannot start an
\* expression with
C23_NoNullStatement ==
    /\ ~HoldsNull(program)
    /\ (input = SrcLetNoName /\ pc = "done") => Len(parser.errors) = 2

=============================================================================
